---- MODULE Spec2Model ----
(***************************************************************************)
(* A model of comick_downloader.py: the fill-the-gap page packer           *)
(* (process_chapter_images, combine_images) as a step machine, and the     *)
(* resumable chapter pipeline of main() with its on-disk run state.        *)
(*                                                                         *)
(* An image is the sequence of its pixel rows, top to bottom; its height   *)
(* is the length of the sequence.  A row of a decoded, width-normalised    *)
(* strip is <<i, r>>: row r of the i-th input path.                        *)
(***************************************************************************)
EXTENDS Integers, Sequences, FiniteSets, TLC

\* ------------------------------------------------------------------ bounds
MaxStrips == 3
MaxHeight == 4
MaxRatio == 3

\* --------------------------------------------------- program constants
DefaultWidth == 1500
DefaultWidthVertical == 2000

VARIABLES
    pk,           \* the locals of process_chapter_images, run step by step
    pc,           \* the position of the run in main()
    args,         \* the command line of the run
    catalog,      \* what the remote source serves for each chapter
    tmp_dir,      \* whether the run directory tmp_<hid> exists
    params_file,  \* run_params.json: <<>> when absent, else <<its text>>
    chdir,        \* the directory ch_<n> of each chapter
    tmp_pdf,      \* the per-chapter PDF in the run directory, <<>> when absent
    run,          \* the locals of main()
    encoder,      \* the parts this run has handed to the encoders, in order
    chapter_files,\* the per-chapter files this run has written
    invocations   \* how many times the program has been started

packVars == <<pk>>

diskVars == <<tmp_dir, params_file, chdir, tmp_pdf>>

mainVars == <<pc, args, catalog, tmp_dir, params_file, chdir, tmp_pdf, run,
              encoder, chapter_files, invocations>>

vars == <<pk, pc, args, catalog, tmp_dir, params_file, chdir, tmp_pdf, run,
          encoder, chapter_files, invocations>>

\* Python's None for an image.
None == <<>>

\* An optional command-line value: NoArg when the option is not given.
NoArg == <<>>

Some(v) == <<v>>

\* ------------------------------------------------------------- geometry
\* An aspect-ratio spec string: the empty string, or a ratio H/W given as the
\* fraction num/den ("2.5" is 5/2, and "4:3", read W:H, is 3/4).
EmptySpec == [text |-> "", num |-> 0, den |-> 1]

Ratio(n, d) == [text |-> "ratio", num |-> n, den |-> d]

DefaultRatioPage == Ratio(5, 2)

DefaultRatioVertical == Ratio(3, 4)

\* main(): the width and the aspect-ratio spec in effect for a format.
EffectiveWidth(format, epub_layout, width_arg) ==
    IF width_arg # NoArg THEN width_arg[1]
    ELSE IF format = "epub" /\ epub_layout = "vertical" THEN DefaultWidthVertical
    ELSE DefaultWidth

EffectiveAspect(format, epub_layout, aspect_arg) ==
    IF format \in {"pdf", "none"} THEN NoArg
    ELSE IF aspect_arg # NoArg THEN aspect_arg
    ELSE IF format = "epub" /\ epub_layout = "vertical"
         THEN Some(DefaultRatioVertical)
    ELSE Some(DefaultRatioPage)

\* parse_aspect_ratio: H/W as a fraction; 0 for an empty spec.
parse_aspect_ratio(spec) ==
    IF spec.text = "" THEN [num |-> 0, den |-> 1]
    ELSE [num |-> spec.num, den |-> spec.den]

\* main(): recombine_target_height = int(width * ratio) when the spec is
\* truthy (neither None nor the empty string), else 0.
RecombineTargetHeight(width, aspect_ratio_str) ==
    IF aspect_ratio_str = NoArg THEN 0
    ELSE IF aspect_ratio_str[1].text = "" THEN 0
    ELSE LET ratio == parse_aspect_ratio(aspect_ratio_str[1])
         IN (width * ratio.num) \div ratio.den

\* ---------------------------------------------------------------- images
\* A stored source image: its pixel size; Corrupt cannot be opened.
Corrupt == [w |-> 0, h |-> 0]

Strip(i, h) == [r \in 1..h |-> <<i, r>>]

Height(img) == Len(img)

\* A crop whose top edge is one row too low.
crop_OffByOne(img, top, bottom) == SubSeq(img, top + 2, bottom)

\* Image.crop((0, top, w, bottom)): rows top+1..bottom.
crop(img, top, bottom) == SubSeq(img, top + 1, bottom)

RECURSIVE Concat(_)
Concat(images) ==
    IF images = <<>> THEN <<>> ELSE Head(images) \o Concat(Tail(images))

RECURSIVE SumHeights(_)
SumHeights(images) ==
    IF images = <<>> THEN 0 ELSE Height(Head(images)) + SumHeights(Tail(images))

RECURSIVE ConcatReversed(_)
ConcatReversed(images) ==
    IF images = <<>> THEN <<>>
    ELSE ConcatReversed(Tail(images)) \o Head(images)

\* A combine that pastes the last image first.
combine_images_Reversed(images, width) ==
    IF images = <<>> THEN None
    ELSE IF width <= 0 \/ SumHeights(images) <= 0 THEN None
    ELSE ConcatReversed(images)

\* combine_images: the images pasted one under the other, or None.
combine_images(images, width) ==
    IF images = <<>> THEN None
    ELSE IF width <= 0 \/ SumHeights(images) <= 0 THEN None
    ELSE Concat(images)

\* Image.open(path).convert("RGB") and the resize to target_w: the decoded
\* strip, or None when opening or resizing raises (a resize to height 0 or
\* width 0 raises ValueError).
OpenStrip(i, file, target_w) ==
    IF file = Corrupt THEN None
    ELSE IF file.w = target_w THEN Strip(i, file.h)
    ELSE IF target_w <= 0 \/ (file.h * target_w) \div file.w <= 0 THEN None
    ELSE Strip(i, (file.h * target_w) \div file.w)

\* The strips the packer decodes, in input order (corrupted ones left out).
RECURSIVE Decoded(_, _, _)
Decoded(paths, i, target_w) ==
    IF i > Len(paths) THEN <<>>
    ELSE LET img == OpenStrip(i, paths[i], target_w)
         IN (IF img = None THEN <<>> ELSE <<img>>)
                \o Decoded(paths, i + 1, target_w)

\* ---------------------------------------------------------------- packer
\* The locals of process_chapter_images; pc is the position in its code:
\* "for" (top of the for loop), "while" (top of while True), "end" (after
\* the for loop), "done" (returned).
PackStart(input_paths, target_w, target_h) ==
    [input_paths |-> input_paths, target_w |-> target_w, target_h |-> target_h,
     i |-> 0, current_image |-> None, page_buffer |-> <<>>,
     buffer_height |-> 0, final_pages |-> <<>>, pc |-> "for"]

\* A loop that throws the buffered strips away when a strip cannot be read.
ForStep_CorruptResets(s) ==
    IF s.i >= Len(s.input_paths) THEN [s EXCEPT !.pc = "end"]
    ELSE LET img == OpenStrip(s.i + 1, s.input_paths[s.i + 1], s.target_w)
         IN IF img = None
            THEN [s EXCEPT !.i = @ + 1, !.page_buffer = <<>>,
                           !.buffer_height = 0]
            ELSE [s EXCEPT !.i = @ + 1, !.current_image = img, !.pc = "while"]

\* for i, path in enumerate(input_paths): open the next strip, skipping a
\* corrupted one.
ForStep(s) ==
    IF s.i >= Len(s.input_paths) THEN [s EXCEPT !.pc = "end"]
    ELSE LET img == OpenStrip(s.i + 1, s.input_paths[s.i + 1], s.target_w)
         IN IF img = None
            THEN [s EXCEPT !.i = @ + 1]
            ELSE [s EXCEPT !.i = @ + 1, !.current_image = img, !.pc = "while"]

\* The gap-filling cut: the top space_left rows go to the buffer.
FillGap(s, space_left) ==
    [s EXCEPT !.page_buffer = Append(@, crop(s.current_image, 0, space_left)),
              !.current_image = crop(s.current_image, space_left,
                                     Height(s.current_image))]

\* Finalising the buffer as a page and resetting it.
EmitPage(s) ==
    LET combined_page == combine_images(s.page_buffer, s.target_w)
    IN [s EXCEPT !.final_pages = IF combined_page # None
                                 THEN Append(@, combined_page) ELSE @,
                 !.page_buffer = <<>>,
                 !.buffer_height = 0]

\* A packer that closes a non-empty page when the strip does not fit,
\* without filling the gap.
WhileStep_NoFill(s) ==
    LET space_left == s.target_h - s.buffer_height
    IN IF Height(s.current_image) <= space_left
       THEN [s EXCEPT !.page_buffer = Append(@, s.current_image),
                      !.buffer_height = @ + Height(s.current_image),
                      !.pc = "for"]
       ELSE IF space_left > 0 /\ s.page_buffer = <<>>
            THEN EmitPage(FillGap(s, space_left))
       ELSE EmitPage(s)

\* One iteration of while True.
WhileStep(s) ==
    LET space_left == s.target_h - s.buffer_height
    IN IF Height(s.current_image) <= space_left
       THEN [s EXCEPT !.page_buffer = Append(@, s.current_image),
                      !.buffer_height = @ + Height(s.current_image),
                      !.pc = "for"]
       ELSE IF space_left > 0 THEN EmitPage(FillGap(s, space_left))
       ELSE EmitPage(s)

\* A packer that forgets the page still in the buffer at the end.
EndStep_Drop(s) == [s EXCEPT !.pc = "done"]

\* if page_buffer: the last, possibly shorter, page.
EndStep(s) ==
    LET combined_page == combine_images(s.page_buffer, s.target_w)
    IN [s EXCEPT !.final_pages = IF s.page_buffer # <<>> /\ combined_page # None
                                 THEN Append(@, combined_page) ELSE @,
                 !.pc = "done"]

\* One step of process_chapter_images from position s.pc.
PackStep(s) ==
    CASE s.pc = "for" -> ForStep(s)
      [] s.pc = "while" -> WhileStep(s)
      [] s.pc = "end" -> EndStep(s)
      [] OTHER -> s

\* process_chapter_images run to its return; it returns for target_h > 0.
RECURSIVE PackRun(_)
PackRun(s) == IF s.pc = "done" THEN s.final_pages ELSE PackRun(PackStep(s))

process_chapter_images(input_paths, target_w, target_h) ==
    PackRun(PackStart(input_paths, target_w, target_h))

\* ----------------------------------------------------- command-line values
Formats == {"pdf", "epub", "cbz", "none"}

PackedFormats == {"epub", "cbz"}

Layouts == {"page", "vertical"}

WidthArgs == {NoArg, Some(2)}

AspectArgs ==
    {NoArg, Some(EmptySpec)}
        \cup {Some(Ratio(n, d)) : n \in 0..MaxRatio, d \in 1..2}

\* The source images a chapter may hold for processing width w: strips of
\* that width, one of double width (halved by the resize), an unreadable one.
StripFiles(w) ==
    {[w |-> w, h |-> k] : k \in 1..MaxHeight}
        \cup {[w |-> 2 * w, h |-> MaxHeight], Corrupt}

SeqsUpTo(S, n) == UNION {[1..k -> S] : k \in 0..n}

\* ------------------------------------------------- the rest of the pipeline
\* resize_chapter_images: one page per readable image, resized to target_w.
resize_chapter_images(input_paths, target_w) == Decoded(input_paths, 1, target_w)

\* img.resize((int(w * f), int(h * f))): the image itself when the size is
\* unchanged, else a resampled image, whose rows are new: <<-k, r>> is row r
\* of the k-th scaled page.
ScaledHeight(img, scaling) == (Height(img) * scaling) \div 100

ScalePage(img, k, scaling) ==
    IF ScaledHeight(img, scaling) = Height(img) THEN img
    ELSE [r \in 1..ScaledHeight(img, scaling) |-> <<0 - k, r>>]

ScaleAll(pages, scaling) ==
    [k \in DOMAIN pages |-> ScalePage(pages[k], k, scaling)]

\* Image.resize raises ValueError for a width or height of 0; main does not
\* catch it.
ScaleRaises(pages, width, scaling) ==
    /\ pages # <<>>
    /\ \/ (width * scaling) \div 100 <= 0
       \/ \E k \in DOMAIN pages : ScaledHeight(pages[k], scaling) <= 0

\* recombine_scaled_images: whole scaled pages stacked while they fit.
RecombineStart ==
    [page_buffer |-> <<>>, buffer_height |-> 0, final_strips |-> <<>>]

\* A stacking that closes the page as soon as it is full, before it knows
\* that the next image does not fit.
RecombineOne_Eager(s, img, strip_width, recombine_height) ==
    IF s.buffer_height + Height(img) >= recombine_height /\ s.page_buffer # <<>>
    THEN LET combined_strip == combine_images(s.page_buffer, strip_width)
         IN [page_buffer |-> <<img>>,
             buffer_height |-> Height(img),
             final_strips |-> IF combined_strip # None
                              THEN Append(s.final_strips, combined_strip)
                              ELSE s.final_strips]
    ELSE [s EXCEPT !.page_buffer = Append(@, img),
                   !.buffer_height = @ + Height(img)]

RecombineOne(s, img, strip_width, recombine_height) ==
    IF s.buffer_height + Height(img) > recombine_height /\ s.page_buffer # <<>>
    THEN LET combined_strip == combine_images(s.page_buffer, strip_width)
         IN [page_buffer |-> <<img>>,
             buffer_height |-> Height(img),
             final_strips |-> IF combined_strip # None
                              THEN Append(s.final_strips, combined_strip)
                              ELSE s.final_strips]
    ELSE [s EXCEPT !.page_buffer = Append(@, img),
                   !.buffer_height = @ + Height(img)]

RECURSIVE RecombineLoop(_, _, _, _, _)
RecombineLoop(s, imgs, k, strip_width, recombine_height) ==
    IF k > Len(imgs) THEN s
    ELSE RecombineLoop(RecombineOne(s, imgs[k], strip_width, recombine_height),
                       imgs, k + 1, strip_width, recombine_height)

\* A recombination that forgets the pages left in the buffer.
recombine_scaled_images_DropsBuffer(scaled_images, strip_width, recombine_height) ==
    IF scaled_images = <<>> THEN <<>>
    ELSE RecombineLoop(RecombineStart, scaled_images, 1,
                       strip_width, recombine_height).final_strips

recombine_scaled_images(scaled_images, strip_width, recombine_height) ==
    IF scaled_images = <<>> THEN <<>>
    ELSE LET s == RecombineLoop(RecombineStart, scaled_images, 1,
                                strip_width, recombine_height)
             combined_strip == combine_images(s.page_buffer, strip_width)
         IN IF s.page_buffer # <<>> /\ combined_strip # None
            THEN Append(s.final_strips, combined_strip)
            ELSE s.final_strips

\* ------------------------------------------------------------ arguments
\* The command line of one run.  split is NoArg or Some of a chapter count
\* ("<n>ch") or a byte size.
SplitCh(n) == Some([unit |-> "ch", n |-> n])

SplitBytes(n) == Some([unit |-> "bytes", n |-> n])

BaseArgs ==
    [format |-> "cbz", epub_layout |-> "page",
     width |-> NoArg, aspect_ratio |-> Some(Ratio(1, 750)),
     quality |-> 85, scaling |-> 100, chapters |-> "all",
     group |-> <<>>, mix_by_upvote |-> FALSE, no_partials |-> FALSE,
     split |-> NoArg, keep_chapters |-> FALSE, no_cleanup |-> FALSE,
     restore_parameters |-> FALSE, language |-> "en"]

\* The command lines a run is started with: the base one, and each option
\* changed on its own.
ArgChoices ==
    {BaseArgs}
        \cup {[BaseArgs EXCEPT !.format = f] : f \in Formats}
        \cup {[BaseArgs EXCEPT !.width = w] : w \in {Some(3000)}}
        \cup {[BaseArgs EXCEPT !.aspect_ratio = a] : a \in {NoArg, Some(EmptySpec)}}
        \cup {[BaseArgs EXCEPT !.quality = q] : q \in {90}}
        \cup {[BaseArgs EXCEPT !.scaling = x] : x \in {50}}
        \cup {[BaseArgs EXCEPT !.chapters = c] : c \in {"1", "99"}}
        \cup {[BaseArgs EXCEPT !.group = g] : g \in {<<"A">>}}
        \cup {[BaseArgs EXCEPT !.mix_by_upvote = b] : b \in {TRUE}}
        \cup {[BaseArgs EXCEPT !.no_partials = b] : b \in {TRUE}}
        \cup {[BaseArgs EXCEPT !.split = x] : x \in {SplitCh(1), SplitBytes(4)}}
        \cup {[BaseArgs EXCEPT !.keep_chapters = b] : b \in {TRUE}}
        \cup {[BaseArgs EXCEPT !.no_cleanup = b] : b \in {TRUE}}

Width(a) == EffectiveWidth(a.format, a.epub_layout, a.width)

AspectRatioStr(a) == EffectiveAspect(a.format, a.epub_layout, a.aspect_ratio)

TargetHeight(a) == RecombineTargetHeight(Width(a), AspectRatioStr(a))

split_chapter_count(a) ==
    IF a.split # NoArg /\ a.split[1].unit = "ch" THEN a.split[1].n ELSE 0

split_size_bytes(a) ==
    IF a.split # NoArg /\ a.split[1].unit = "bytes" THEN a.split[1].n ELSE 0

\* A fingerprint that leaves the last field out of the comparison.
get_processing_params_NoPartialsDropped(a) ==
    [width |-> Width(a), aspect_ratio |-> AspectRatioStr(a),
     quality |-> a.quality, scaling |-> a.scaling, chapters |-> a.chapters,
     group |-> a.group, mix_by_upvote |-> a.mix_by_upvote,
     no_partials |-> FALSE]

\* get_processing_params: the fingerprint of a run.
get_processing_params(a) ==
    [width |-> Width(a), aspect_ratio |-> AspectRatioStr(a),
     quality |-> a.quality, scaling |-> a.scaling, chapters |-> a.chapters,
     group |-> a.group, mix_by_upvote |-> a.mix_by_upvote,
     no_partials |-> a.no_partials]

\* ---------------------------------------------------------------- catalog
NumChapters == 2

\* How many times the program is started on the same run directory.
MaxRuns == 2

AllChapters == 1..NumChapters

\* The images the remote source serves for a chapter: two strips, none at
\* all, or one that cannot be decoded.
ChapterKinds == {"normal", "empty", "corrupt"}

ImagesOfKind(kind) ==
    CASE kind = "normal" ->
             <<[w |-> DefaultWidth, h |-> 3], [w |-> DefaultWidth, h |-> 1]>>
      [] kind = "corrupt" -> <<Corrupt>>
      [] kind = "partial" ->
             <<[w |-> DefaultWidth, h |-> 3], [w |-> DefaultWidth, h |-> 2],
               [w |-> DefaultWidth, h |-> 1]>>
      [] kind = "lost" -> <<[w |-> DefaultWidth, h |-> 3]>>
      [] kind = "spoilt" -> <<[w |-> DefaultWidth, h |-> 3], Corrupt>>
      [] OTHER -> <<>>

\* The images of a chapter that dl_image retrieves; for the others every
\* URL variant fails all its attempts.
Retrievable(kind) ==
    CASE kind = "partial" -> {1, 3}
      [] kind = "lost" -> {}
      [] kind = "spoilt" -> {2}
      [] OTHER -> DOMAIN ImagesOfKind(kind)

\* dl_image of the image at position i: its path, or None.
dl_image(kind, i) ==
    IF i \in Retrievable(kind) THEN Some(ImagesOfKind(kind)[i]) ELSE NoArg

\* A download loop that keeps a place for an image it could not retrieve.
Downloaded_KeepsPlace(downloaded_images, pth) ==
    Append(downloaded_images, IF pth = NoArg THEN Corrupt ELSE pth[1])

\* if pth: downloaded_images.append(pth)
Downloaded(downloaded_images, pth) ==
    IF pth = NoArg THEN downloaded_images ELSE Append(downloaded_images, pth[1])

\* The catalogs: every chapter normal, or one chapter empty or corrupt.
Catalogs ==
    {[c \in AllChapters |-> IF c = 1 THEN kind ELSE "normal"] :
        kind \in ChapterKinds}

\* is_chapter_wanted, for the range specs of ArgChoices.
is_chapter_wanted(c, range_spec) ==
    CASE range_spec = "1" -> c = 1
      [] OTHER -> FALSE

\* main(): the selected chapters, in ascending order.
SelectedChapters(a) ==
    SelectSeq([c \in AllChapters |-> c],
              LAMBDA c : a.chapters = "all" \/ is_chapter_wanted(c, a.chapters))

\* ------------------------------------------------- one chapter's pages
\* process_chapter_images returns unless it meets a decodable strip with a
\* target height that no strip fits (target_h <= 0).
PackReturns(input_paths, target_w, target_h) ==
    target_h > 0 \/ Decoded(input_paths, 1, target_w) = <<>>

PagesInMemory(a, input_paths) ==
    IF a.format \in PackedFormats
    THEN process_chapter_images(input_paths, Width(a), TargetHeight(a))
    ELSE resize_chapter_images(input_paths, Width(a))

\* main(): the scaling pass and, for a packed format, the recombination.
ImagesToSave(a, pages_in_memory) ==
    LET scaled_images_in_mem == ScaleAll(pages_in_memory, a.scaling)
    IN IF a.scaling < 100 /\ a.format \in PackedFormats /\ TargetHeight(a) > 0
       THEN recombine_scaled_images(scaled_images_in_mem,
                                    (Width(a) * a.scaling) \div 100,
                                    TargetHeight(a))
       ELSE scaled_images_in_mem

\* os.path.getsize of a saved page: a function of its content.
getsize(img) == Height(img)

\* ------------------------------------------------------------ disk state
\* ch_<n>: whether it exists, the saved pages of its processed/ directory in
\* file-name order, and whether .processed_complete exists.  (The raw
\* downloads in it are read only by the run that wrote them.)
AbsentDir == [exists |-> FALSE, processed |-> <<>>, marker |-> FALSE]

NoFile == <<>>

\* A removal that leaves the directory as it is.
rm_tree_Keep(d) == d

\* rm_tree(tdir), run to its end: what is left of the directory.
rm_tree(d) == AbsentDir

EmptyDisk ==
    /\ tmp_dir = FALSE
    /\ params_file = NoFile
    /\ chdir = [c \in AllChapters |-> AbsentDir]
    /\ tmp_pdf = [c \in AllChapters |-> NoFile]

\* rm_tree(main_tmp_dir), run to its end.
WipeRunDir ==
    /\ tmp_dir' = FALSE
    /\ params_file' = NoFile
    /\ chdir' = [c \in AllChapters |-> AbsentDir]
    /\ tmp_pdf' = [c \in AllChapters |-> NoFile]

\* A saved page p_<n>_<i>.jpg and a per-chapter PDF, with their content.
PageFile(c, i, img) == [ch |-> c, i |-> i, img |-> img]

PdfFile(c, sheets) == [ch |-> c, i |-> 0, img |-> Concat(sheets)]

PageFiles(c, images) == [i \in DOMAIN images |-> PageFile(c, i, images[i])]

Images(files) == [k \in DOMAIN files |-> files[k].img]

RECURSIVE SumSizes(_)
SumSizes(files) ==
    IF files = <<>> THEN 0 ELSE getsize(Head(files).img) + SumSizes(Tail(files))

\* ------------------------------------------------------- main(), locals
\* current_book_content and its companions at the start of the loop, for a
\* comic whose page names no cover image.
EmptyBook == [content |-> <<>>, chapters |-> <<>>, size |-> 0]

Unbound == [bound |-> FALSE, paths |-> <<>>]

Bound(paths) == [bound |-> TRUE, paths |-> paths]

InitRun ==
    [resume_mode |-> FALSE, chapters |-> <<>>, ci |-> 0,
     process_this_chapter |-> TRUE, i |-> 0, downloaded_images |-> <<>>,
     images_to_save |-> <<>>, saved |-> 0,
     chapter_content |-> <<>>, chapter_content_size |-> 0,
     final_page_paths |-> Unbound, book |-> EmptyBook]

IdlePack == PackStart(<<>>, 0, 0)

ch == run.chapters[run.ci]

Ended == {"done", "exit", "aborted", "killed"}

\* The start of main() up to the chapter selection, which touches nothing
\* on the disk: sys.exit("No chapters selected.") when the selection is
\* empty, else on to the resume check.
StartPc_NeverExits(a) == "resume_check"

StartPc(a) == IF SelectedChapters(a) = <<>> THEN "exit" ELSE "resume_check"

Started_Unselected(a) == InitRun

Started(a) == [InitRun EXCEPT !.chapters = SelectedChapters(a)]

Init ==
    /\ pk = IdlePack
    /\ args \in ArgChoices
    /\ pc = StartPc(args)
    /\ run = Started(args)
    /\ catalog \in Catalogs
    /\ EmptyDisk
    /\ encoder = <<>>
    /\ chapter_files = <<>>
    /\ invocations = 1

\* A new invocation of the program on the disk the last one left.
Restart ==
    /\ pc \in Ended
    /\ invocations < MaxRuns
    /\ invocations' = invocations + 1
    /\ \E a \in ArgChoices :
           /\ args' = a
           /\ pc' = StartPc(a)
           /\ run' = Started(a)
    /\ encoder' = <<>>
    /\ chapter_files' = <<>>
    /\ UNCHANGED <<pk, catalog, tmp_dir, params_file, chdir, tmp_pdf>>

\* json.dump of the fingerprint: the text of run_params.json, one
\* key/value pair per field in the order of the dict.
json_dump(params) ==
    <<<<"width", params.width>>, <<"aspect_ratio", params.aspect_ratio>>,
      <<"quality", params.quality>>, <<"scaling", params.scaling>>,
      <<"chapters", params.chapters>>, <<"group", params.group>>,
      <<"mix_by_upvote", params.mix_by_upvote>>,
      <<"no_partials", params.no_partials>>>>

\* json.load raises JSONDecodeError on the empty file open(..., "w") leaves.
JSONDecodeError(text) == text = <<>>

KeyIndex(text, key) == (CHOOSE k \in DOMAIN text : text[k][1] = key)

\* json.load of a text json.dump wrote.
json_load(text) ==
    [width |-> text[KeyIndex(text, "width")][2],
     aspect_ratio |-> text[KeyIndex(text, "aspect_ratio")][2],
     quality |-> text[KeyIndex(text, "quality")][2],
     scaling |-> text[KeyIndex(text, "scaling")][2],
     chapters |-> text[KeyIndex(text, "chapters")][2],
     group |-> text[KeyIndex(text, "group")][2],
     mix_by_upvote |-> text[KeyIndex(text, "mix_by_upvote")][2],
     no_partials |-> text[KeyIndex(text, "no_partials")][2]]

\* old_params == current_params, on the parsed file content.
ParamsMatch(old_params, current_params) == old_params = current_params

\* Whether run_params.json exists, parses and matches.
ResumeCompatible ==
    /\ tmp_dir
    /\ params_file # NoFile
    /\ ~JSONDecodeError(params_file[1])
    /\ ParamsMatch(json_load(params_file[1]), get_processing_params(args))

\* The resume check: resume, or remove the run directory.
ResumeCheck ==
    /\ pc = "resume_check"
    /\ run' = [run EXCEPT !.resume_mode = ResumeCompatible]
    /\ IF tmp_dir /\ ~ResumeCompatible
       THEN WipeRunDir
       ELSE UNCHANGED <<tmp_dir, params_file, chdir, tmp_pdf>>
    /\ pc' = IF ResumeCompatible THEN "loop" ELSE "params_open"
    /\ UNCHANGED <<pk, invocations, args, catalog, encoder, chapter_files>>

\* os.makedirs(main_tmp_dir) and open(params_path, "w"): the file is empty.
ParamsOpen ==
    /\ pc = "params_open"
    /\ tmp_dir' = TRUE
    /\ params_file' = <<<<>>>>
    /\ pc' = "params_dump"
    /\ UNCHANGED <<pk, invocations, args, catalog, chdir, tmp_pdf, run, encoder,
                   chapter_files>>

\* json.dump(current_params, f) and the close of the file.
ParamsDump ==
    /\ pc = "params_dump"
    /\ params_file' = <<json_dump(get_processing_params(args))>>
    /\ pc' = "loop"
    /\ UNCHANGED <<pk, invocations, args, catalog, tmp_dir, chdir, tmp_pdf, run, encoder,
                   chapter_files>>

\* ------------------------------------------------------- the chapter loop
\* for ch in chapters: the next chapter, or the end of the loop.  (The
\* locals that every iteration assigns before reading are reset here.)
LoopNext ==
    /\ pc = "loop"
    /\ IF run.ci >= Len(run.chapters)
       THEN pc' = "final" /\ run' = run
       ELSE /\ pc' = "check"
            /\ run' = [run EXCEPT !.ci = @ + 1,
                                  !.process_this_chapter = TRUE,
                                  !.i = 0,
                                  !.downloaded_images = <<>>,
                                  !.images_to_save = <<>>,
                                  !.saved = 0,
                                  !.chapter_content = <<>>,
                                  !.chapter_content_size = 0]
    /\ UNCHANGED <<pk, invocations, args, catalog, tmp_dir, params_file, chdir, tmp_pdf,
                   encoder, chapter_files>>

\* if resume_mode and os.path.exists(marker_path)
MarkerFound == run.resume_mode /\ chdir[ch].marker

\* The content a skipped chapter contributes: its cached pages, or for pdf
\* the PDF re-built from them.
CachedContent(a, c, processed_images) ==
    IF a.format = "pdf"
    THEN (IF processed_images # <<>>
          THEN <<PdfFile(c, Images(processed_images))>> ELSE <<>>)
    ELSE processed_images

\* A check that trusts the marker alone.
ShouldSkip_MarkerOnly(processed_images, content) == TRUE

\* The chapter is skipped when its cached pages are found and give content.
ShouldSkip(processed_images, content) ==
    processed_images # <<>> /\ content # <<>>

\* The resume-skip check of one chapter.
CheckChapter ==
    /\ pc = "check"
    /\ IF MarkerFound
       THEN LET processed_images == chdir[ch].processed
                content == CachedContent(args, ch, processed_images)
            IN IF ~ShouldSkip(processed_images, content)
               THEN /\ chdir' = [chdir EXCEPT ![ch] = rm_tree(@)]
                    /\ pc' = "clean"
                    /\ UNCHANGED <<run, tmp_pdf>>
               ELSE /\ run' = [run EXCEPT
                                 !.process_this_chapter = FALSE,
                                 !.chapter_content = content,
                                 !.chapter_content_size = SumSizes(content)]
                    /\ tmp_pdf' = IF args.format = "pdf"
                                  THEN [tmp_pdf EXCEPT ![ch] = content]
                                  ELSE tmp_pdf
                    /\ pc' = "emit"
                    /\ UNCHANGED chdir
       ELSE pc' = "clean" /\ UNCHANGED <<run, chdir, tmp_pdf>>
    /\ UNCHANGED <<pk, invocations, args, catalog, tmp_dir, params_file, encoder,
                   chapter_files>>

\* if os.path.isdir(tdir): rm_tree(tdir); then the image list is fetched.
CleanChapter ==
    /\ pc = "clean"
    /\ chdir' = [chdir EXCEPT ![ch] = IF @.exists THEN rm_tree(@) ELSE @]
    /\ pc' = "download"
    /\ UNCHANGED <<pk, invocations, args, catalog, tmp_dir, params_file, tmp_pdf, run,
                   encoder, chapter_files>>

imgs == ImagesOfKind(catalog[ch])

\* dl_image of the next image of the chapter.
DownloadImage ==
    /\ pc = "download"
    /\ run.i < Len(imgs)
    /\ run' = [run EXCEPT !.i = @ + 1,
                          !.downloaded_images =
                              Downloaded(@, dl_image(catalog[ch], run.i + 1))]
    /\ chdir' = [chdir EXCEPT ![ch].exists = TRUE]
    /\ UNCHANGED <<pk, invocations, pc, args, catalog, tmp_dir, params_file, tmp_pdf,
                   encoder, chapter_files>>

\* if not downloaded_images: continue
DownloadDone ==
    /\ pc = "download"
    /\ run.i = Len(imgs)
    /\ pc' = IF run.downloaded_images = <<>> THEN "loop" ELSE "process"
    /\ UNCHANGED <<pk, invocations, args, catalog, tmp_dir, params_file, chdir, tmp_pdf,
                   run, encoder, chapter_files>>

PackerHangs ==
    /\ args.format \in PackedFormats
    /\ ~PackReturns(run.downloaded_images, Width(args), TargetHeight(args))

\* process_chapter_images never returns: the run stays where it is.
ProcessHangs ==
    /\ pc = "process"
    /\ PackerHangs
    /\ UNCHANGED vars

\* Packing (or resizing), scaling and recombination, in memory.
ProcessImages ==
    /\ pc = "process"
    /\ ~PackerHangs
    /\ LET pages_in_memory == PagesInMemory(args, run.downloaded_images)
       IN IF ScaleRaises(pages_in_memory, Width(args), args.scaling)
          THEN /\ pc' = "aborted"
               /\ run' = run
          ELSE /\ pc' = "save"
               /\ run' = [run EXCEPT
                            !.images_to_save = ImagesToSave(args, pages_in_memory),
                            !.saved = 0]
    /\ UNCHANGED <<pk, invocations, args, catalog, tmp_dir, params_file, chdir, tmp_pdf,
                   encoder, chapter_files>>

\* save_final_images: img.save of the next page.
SavePage ==
    /\ pc = "save"
    /\ run.saved < Len(run.images_to_save)
    /\ chdir' = [chdir EXCEPT
                   ![ch].exists = TRUE,
                   ![ch].processed =
                       Append(@, PageFile(ch, run.saved + 1,
                                          run.images_to_save[run.saved + 1]))]
    /\ run' = [run EXCEPT !.saved = @ + 1]
    /\ UNCHANGED <<pk, invocations, pc, args, catalog, tmp_dir, params_file, tmp_pdf,
                   encoder, chapter_files>>

\* The content a processed chapter contributes: its saved pages, or for pdf
\* the PDF built from them.
ProcessedContent(a, c, final_page_paths) ==
    IF a.format = "pdf"
    THEN (IF final_page_paths # <<>>
          THEN <<PdfFile(c, Images(final_page_paths))>> ELSE <<>>)
    ELSE final_page_paths

\* save_final_images returns; for pdf the chapter's PDF is written.
SaveDone ==
    /\ pc = "save"
    /\ run.saved = Len(run.images_to_save)
    /\ LET final_page_paths == PageFiles(ch, run.images_to_save)
           content == ProcessedContent(args, ch, final_page_paths)
       IN /\ run' = [run EXCEPT !.final_page_paths = Bound(final_page_paths),
                                !.chapter_content = content]
          /\ tmp_pdf' = IF args.format = "pdf" /\ content # <<>>
                        THEN [tmp_pdf EXCEPT ![ch] = content]
                        ELSE tmp_pdf
    /\ chdir' = [chdir EXCEPT ![ch].exists = TRUE]
    /\ pc' = "mark"
    /\ UNCHANGED <<pk, invocations, args, catalog, tmp_dir, params_file, encoder,
                   chapter_files>>

\* A run that writes the marker whatever the chapter produced.
ShouldMark_Always(chapter_content) == TRUE

\* if chapter_content: the completion marker is written.
ShouldMark(chapter_content) == chapter_content # <<>>

MarkComplete ==
    /\ pc = "mark"
    /\ chdir' = [chdir EXCEPT ![ch].marker =
                                  @ \/ ShouldMark(run.chapter_content)]
    /\ run' = [run EXCEPT !.chapter_content_size = SumSizes(run.chapter_content)]
    /\ pc' = "emit"
    /\ UNCHANGED <<pk, invocations, args, catalog, tmp_dir, params_file, tmp_pdf, encoder,
                   chapter_files>>

\* if not chapter_content: continue; then the per-chapter file of
\* --keep-chapters, which for epub and cbz reads final_page_paths.
EmitChapter ==
    /\ pc = "emit"
    /\ IF run.chapter_content = <<>>
       THEN pc' = "loop" /\ UNCHANGED chapter_files
       ELSE IF args.keep_chapters /\ args.format \in PackedFormats
       THEN IF run.final_page_paths.bound
            THEN /\ chapter_files' =
                        Append(chapter_files,
                               [ch |-> ch, pages |-> run.final_page_paths.paths])
                 /\ pc' = "offer"
            ELSE pc' = "aborted" /\ UNCHANGED chapter_files
       ELSE IF args.keep_chapters /\ args.format = "pdf"
       THEN /\ chapter_files' =
                   Append(chapter_files,
                          [ch |-> ch, pages |-> <<run.chapter_content[1]>>])
            /\ pc' = "offer"
       ELSE pc' = "offer" /\ UNCHANGED chapter_files
    /\ UNCHANGED <<pk, invocations, args, catalog, tmp_dir, params_file, chdir, tmp_pdf,
                   run, encoder>>

\* ------------------------------------------------------ part accumulation
\* A size test that leaves the chapter about to be added out of the sum.
should_split_by_size_IgnoresNewChapter(a, book, chapter_content_size) ==
    /\ split_size_bytes(a) > 0
    /\ book.content # <<>>
    /\ book.size > split_size_bytes(a)

should_split_by_size(a, book, chapter_content_size) ==
    /\ split_size_bytes(a) > 0
    /\ book.content # <<>>
    /\ book.size + chapter_content_size > split_size_bytes(a)

\* A count test without the test that a threshold is configured.
should_split_by_chapters_NoThreshold(a, book) ==
    Len(book.chapters) >= split_chapter_count(a)

\* A count test that lets one chapter more into the part.
should_split_by_chapters_OneMore(a, book) ==
    /\ split_chapter_count(a) > 0
    /\ Len(book.chapters) > split_chapter_count(a)

should_split_by_chapters(a, book) ==
    /\ split_chapter_count(a) > 0
    /\ Len(book.chapters) >= split_chapter_count(a)

\* A suffix made of the positions of the first and last chapter in the
\* part instead of their numbers.
part_suffix_Positions(book_chapters) ==
    IF book_chapters = <<>> THEN <<>>
    ELSE <<"Ch_", 1, "-", Len(book_chapters)>>

\* part_suffix = f"Ch_{start_chap}-{end_chap}", of the first and the last
\* chapter of the part (with no chapter the lookup raises, see BuildRaises).
part_suffix(book_chapters) ==
    IF book_chapters = <<>> THEN <<>>
    ELSE <<"Ch_", book_chapters[1], "-", book_chapters[Len(book_chapters)]>>

\* build_book_part: what the encoder of the format is handed, if anything;
\* name is what follows the base file name in the name of the file.
build_book_part(a, book) ==
    IF book.content = <<>> \/ a.format = "none" THEN <<>>
    ELSE <<[kind |-> "part", content |-> book.content,
            chapters |-> book.chapters,
            name |-> part_suffix(book.chapters)]>>

\* The final build when no splitting is configured.
build_final(a, book) ==
    IF a.format = "none" THEN <<>>
    ELSE <<[kind |-> "book", content |-> book.content,
            chapters |-> book.chapters, name |-> <<>>]>>

\* An accumulator whose size is not reset by a flush.
Offer_SizeCarriesOver(a, book, c, chapter_content, chapter_content_size) ==
    LET flush == \/ should_split_by_size(a, book, chapter_content_size)
                 \/ should_split_by_chapters(a, book)
        start == IF flush THEN EmptyBook ELSE book
    IN [built |-> IF flush THEN build_book_part(a, book) ELSE <<>>,
        flushed |-> flush,
        book |-> [content |-> start.content \o chapter_content,
                  chapters |-> Append(start.chapters, c),
                  size |-> book.size + chapter_content_size]]

\* The accumulator after a chapter is offered: [book, built].
Offer(a, book, c, chapter_content, chapter_content_size) ==
    LET flush == \/ should_split_by_size(a, book, chapter_content_size)
                 \/ should_split_by_chapters(a, book)
        start == IF flush THEN EmptyBook ELSE book
    IN [built |-> IF flush THEN build_book_part(a, book) ELSE <<>>,
        flushed |-> flush,
        book |-> [content |-> start.content \o chapter_content,
                  chapters |-> Append(start.chapters, c),
                  size |-> start.size + chapter_content_size]]

\* A final build that is made only when no splitting is configured.
FinalBuild_OnlyUnsplit(a, book) ==
    IF book.content = <<>> THEN <<>>
    ELSE IF split_size_bytes(a) > 0 \/ split_chapter_count(a) > 0
    THEN <<>>
    ELSE build_final(a, book)

\* What the encoder is handed at the end of the loop.
FinalBuild(a, book) ==
    IF book.content = <<>> THEN <<>>
    ELSE IF split_size_bytes(a) > 0 \/ split_chapter_count(a) > 0
    THEN build_book_part(a, book)
    ELSE build_final(a, book)

\* os.remove of the per-chapter PDFs a pdf build has merged.
RemoveMerged(a, book, built, pdfs) ==
    IF a.format = "pdf" /\ built # <<>>
    THEN [c \in AllChapters |->
             IF \E k \in DOMAIN book.content : book.content[k].ch = c
             THEN NoFile ELSE pdfs[c]]
    ELSE pdfs

OfferChapter ==
    /\ pc = "offer"
    /\ LET o == Offer(args, run.book, ch, run.chapter_content,
                      run.chapter_content_size)
       IN /\ encoder' = encoder \o o.built
          /\ tmp_pdf' = RemoveMerged(args, run.book, o.built, tmp_pdf)
          /\ run' = [run EXCEPT !.book = o.book]
    /\ pc' = "loop"
    /\ UNCHANGED <<pk, invocations, args, catalog, tmp_dir, params_file, chdir,
                   chapter_files>>

FinalFlush ==
    /\ pc = "final"
    /\ encoder' = encoder \o FinalBuild(args, run.book)
    /\ tmp_pdf' = RemoveMerged(args, run.book, FinalBuild(args, run.book), tmp_pdf)
    /\ pc' = "cleanup"
    /\ UNCHANGED <<pk, invocations, args, catalog, tmp_dir, params_file, chdir, run,
                   chapter_files>>

\* A cleanup that --no-cleanup does not stop.
ShouldCleanup_Always(a) == TRUE

\* if not args.no_cleanup
ShouldCleanup(a) == ~a.no_cleanup

\* if not args.no_cleanup: rm_tree(main_tmp_dir)
Cleanup ==
    /\ pc = "cleanup"
    /\ IF ShouldCleanup(args)
       THEN WipeRunDir
       ELSE UNCHANGED <<tmp_dir, params_file, chdir, tmp_pdf>>
    /\ pc' = "done"
    /\ UNCHANGED <<pk, invocations, args, catalog, run, encoder, chapter_files>>

\* ------------------------------------------------------ abrupt termination
\* The positions between the start of a chapter's image retrieval and the
\* creation of its completion marker.
MidChapter == {"download", "process", "save", "mark"}

Running == {"resume_check", "params_open", "params_dump", "loop",
            "check", "clean", "download", "process", "save", "mark", "emit",
            "offer", "final", "cleanup"}

\* The process and everything it held in memory are gone.
DiesAt(position) ==
    /\ pc' = position
    /\ args' = BaseArgs
    /\ run' = InitRun
    /\ encoder' = <<>>
    /\ chapter_files' = <<>>
    /\ UNCHANGED <<pk, invocations, catalog>>

Dies == DiesAt("killed")

\* The process is killed between two steps.
Kill ==
    /\ pc \in Running
    /\ Dies
    /\ UNCHANGED <<tmp_dir, params_file, chdir, tmp_pdf>>

\* shutil.rmtree removes a tree entry by entry, in directory order: what a
\* kill in the middle of it can leave of a chapter directory.
SubSeqs(files) ==
    {SelectSeq(files, LAMBDA f : f.i \in S) :
        S \in SUBSET {files[k].i : k \in DOMAIN files}}

PartlyRemoved(d) ==
    {[exists |-> TRUE, processed |-> p, marker |-> m] :
        p \in SubSeqs(d.processed), m \in {d.marker, FALSE}}

\* The process is killed inside rm_tree(tdir).
KillInChapterWipe ==
    /\ \/ pc = "clean" /\ chdir[ch].exists
       \/ pc = "check" /\ MarkerFound /\ chdir[ch].processed = <<>>
    /\ Dies
    /\ \E d \in PartlyRemoved(chdir[ch]) : chdir' = [chdir EXCEPT ![ch] = d]
    /\ UNCHANGED <<tmp_dir, params_file, tmp_pdf>>

\* The process is killed inside rm_tree(main_tmp_dir).
KillInRunDirWipe ==
    /\ \/ pc = "resume_check" /\ tmp_dir /\ ~ResumeCompatible
       \/ pc = "cleanup" /\ ~args.no_cleanup /\ tmp_dir
    /\ DiesAt("killed_in_wipe")
    /\ UNCHANGED <<tmp_dir, params_file, chdir, tmp_pdf>>

\* What the interrupted rm_tree(main_tmp_dir) had removed: some entries of
\* the run directory are gone, at most one chapter directory partly.
RunDirResidue ==
    /\ pc = "killed_in_wipe"
    /\ pc' = "killed"
    /\ \E gone \in SUBSET {c \in AllChapters : chdir[c].exists},
          pdfs_gone \in SUBSET {c \in AllChapters : tmp_pdf[c] # NoFile},
          params_gone \in {FALSE, params_file # NoFile} :
           \E part \in {c \in AllChapters : chdir[c].exists /\ c \notin gone} \cup {0} :
           \E d \in IF part = 0 THEN {AbsentDir}
                     ELSE PartlyRemoved(chdir[part]) \ {chdir[part]} :
               /\ chdir' = [c \in AllChapters |->
                               IF c \in gone THEN AbsentDir
                               ELSE IF c = part THEN d
                               ELSE chdir[c]]
               /\ tmp_pdf' = [c \in AllChapters |->
                                 IF c \in pdfs_gone THEN NoFile ELSE tmp_pdf[c]]
               /\ params_file' = IF params_gone THEN NoFile ELSE params_file
    /\ UNCHANGED <<pk, invocations, args, catalog, tmp_dir, run, encoder,
                   chapter_files>>

Next ==
    \/ ResumeCheck
    \/ ParamsOpen
    \/ ParamsDump
    \/ LoopNext
    \/ CheckChapter
    \/ CleanChapter
    \/ DownloadImage
    \/ DownloadDone
    \/ ProcessHangs
    \/ ProcessImages
    \/ SavePage
    \/ SaveDone
    \/ MarkComplete
    \/ EmitChapter
    \/ OfferChapter
    \/ FinalFlush
    \/ Cleanup
    \/ Kill
    \/ KillInChapterWipe
    \/ KillInRunDirWipe
    \/ RunDirResidue
    \/ Restart

Spec == Init /\ [][Next]_vars

\* ------------------------------------- a run on an empty disk, as a fold
\* One iteration of the chapter loop of a run that skips nothing.
LoopBody(a, cat, st, c) ==
    LET downloaded_images == ImagesOfKind(cat[c])
        pages_in_memory == PagesInMemory(a, downloaded_images)
        final_page_paths == PageFiles(c, ImagesToSave(a, pages_in_memory))
        chapter_content == ProcessedContent(a, c, final_page_paths)
        o == Offer(a, st.book, c, chapter_content, SumSizes(chapter_content))
    IN IF st.status # "running" \/ downloaded_images = <<>> THEN st
       ELSE IF /\ a.format \in PackedFormats
               /\ ~PackReturns(downloaded_images, Width(a), TargetHeight(a))
       THEN [st EXCEPT !.status = "hangs"]
       ELSE IF ScaleRaises(pages_in_memory, Width(a), a.scaling)
       THEN [st EXCEPT !.status = "aborted"]
       ELSE IF chapter_content = <<>> THEN st
       ELSE [st EXCEPT !.book = o.book, !.encoder = @ \o o.built]

RECURSIVE LoopFrom(_, _, _, _)
LoopFrom(a, cat, st, chapters) ==
    IF chapters = <<>> THEN st
    ELSE LoopFrom(a, cat, LoopBody(a, cat, st, Head(chapters)), Tail(chapters))

\* What a single uninterrupted run hands the encoders, and how it ends.
Uninterrupted(a, cat) ==
    LET st == LoopFrom(a, cat,
                       [status |-> "running", book |-> EmptyBook,
                        encoder |-> <<>>],
                       SelectedChapters(a))
    IN IF st.status # "running" THEN [status |-> st.status, encoder |-> st.encoder]
       ELSE [status |-> "done",
             encoder |-> st.encoder \o FinalBuild(a, st.book)]

\* ------------------------------------------------ properties of the runs
\* The positions of the chapter loop.
InLoop == {"loop", "check", "clean", "download", "process", "save", "mark",
           "emit", "offer"}

\* C1: a chapter's completion marker is created only after all of the
\* chapter's page files have been written to disk, and never when the
\* chapter produced zero pages.
C1_MarkerAfterPages ==
    [][\A c \in AllChapters :
          (~chdir[c].marker /\ chdir'[c].marker) =>
              /\ pc = "mark" /\ c = ch
              /\ run.images_to_save # <<>>
              /\ Images(chdir[c].processed) = run.images_to_save
              /\ chdir'[c].processed = chdir[c].processed]_vars

\* A chapter of two pages has just been marked while the chapter before it,
\* which gave no page, sits unmarked on the disk.
C1_Witness ==
    /\ pc = "emit"
    /\ run.process_this_chapter
    /\ chdir[ch].marker
    /\ Len(chdir[ch].processed) >= 2
    /\ \E c \in AllChapters :
           /\ catalog[c] = "corrupt"
           /\ chdir[c].exists
           /\ chdir[c].processed = <<>>
           /\ ~chdir[c].marker

\* Whether a fingerprint is persisted and equals the one of the command
\* line in every field.
PersistedEqualsCurrent ==
    /\ tmp_dir
    /\ params_file # NoFile
    /\ params_file[1] # <<>>
    /\ LET old == json_load(params_file[1])
       IN /\ old.width = Width(args)
          /\ old.aspect_ratio = AspectRatioStr(args)
          /\ old.quality = args.quality
          /\ old.scaling = args.scaling
          /\ old.chapters = args.chapters
          /\ old.group = args.group
          /\ old.mix_by_upvote = args.mix_by_upvote
          /\ old.no_partials = args.no_partials

\* C2: at startup resume mode is enabled iff a persisted fingerprint exists
\* and equals the current one in every field; otherwise an existing run
\* directory is deleted wholesale; and whenever a chapter is processed the
\* persisted fingerprint equals the current one.
C2_ResumeIffFingerprintEqual ==
    [][/\ (pc = "resume_check" /\ pc' \notin {"killed", "killed_in_wipe"}) =>
              /\ run'.resume_mode <=> PersistedEqualsCurrent
              /\ run'.resume_mode =>
                     UNCHANGED <<tmp_dir, params_file, chdir, tmp_pdf>>
              /\ (~run'.resume_mode /\ tmp_dir) =>
                     /\ ~tmp_dir' /\ params_file' = NoFile
                     /\ \A c \in AllChapters :
                            chdir'[c] = AbsentDir /\ tmp_pdf'[c] = NoFile
       /\ pc \in InLoop => PersistedEqualsCurrent]_vars

\* A run has resumed on a disk that holds a completed chapter.
C2_Witness ==
    /\ pc = "loop"
    /\ run.ci = 0
    /\ run.resume_mode
    /\ \E c \in AllChapters : chdir[c].marker /\ chdir[c].processed # <<>>

\* C3: on a resumed run a chapter is skipped iff its marker exists and at
\* least one cached page file is found; with the marker but no page files
\* the chapter's directory is wiped and the chapter is processed from
\* scratch, and the run does not abort.
C3_SkipIffMarkerAndPages ==
    [][(pc = "check" /\ run.resume_mode /\ pc' # "killed") =>
           LET marker == chdir[ch].marker
               pages == chdir[ch].processed # <<>>
           IN /\ pc' \in {"emit", "clean"}
              /\ pc' = "emit" <=> (marker /\ pages)
              /\ pc' = "emit" =>
                     /\ ~run'.process_this_chapter
                     /\ chdir' = chdir
                     /\ run'.downloaded_images = <<>>
              /\ pc' = "clean" => run'.process_this_chapter
              /\ (marker /\ ~pages) => chdir'[ch] = AbsentDir]_vars

\* A resumed run has skipped its first chapter and now finds the marker of
\* the second one without any page file.
C3_Witness ==
    /\ pc = "check"
    /\ run.resume_mode
    /\ run.ci = 2
    /\ run.book.chapters = <<1>>
    /\ ~run.final_page_paths.bound
    /\ chdir[ch].marker
    /\ chdir[ch].processed = <<>>

\* C4: between the start of a chapter's image retrieval and the creation of
\* its marker the chapter has no marker, and a kill there leaves none; a run
\* that finds the chapter without marker removes its directory and
\* retrieves and packs it again, saving every page anew.
C4_InterruptedChapterReprocessed ==
    [][/\ pc \in MidChapter => ~chdir[ch].marker
       /\ (pc \in MidChapter /\ pc' = "killed") =>
              LET c == ch IN chdir'[c] = chdir[c] /\ ~chdir'[c].marker
       /\ (pc = "check" /\ ~chdir[ch].marker /\ pc' # "killed") =>
              pc' = "clean"
       /\ (pc = "clean" /\ pc' # "killed") =>
              /\ pc' = "download"
              /\ chdir'[ch] = AbsentDir
              /\ run'.downloaded_images = <<>>
       /\ pc = "process" => chdir[ch].processed = <<>>
       /\ pc = "save" =>
              Images(chdir[ch].processed)
                  = SubSeq(run.images_to_save, 1, run.saved)]_vars

\* A run with the fingerprint of the last one is about to remove the
\* directory of a chapter that a kill left with one of its two pages.
C4_Witness ==
    /\ pc = "clean"
    /\ run.resume_mode
    /\ catalog[ch] = "normal"
    /\ ~chdir[ch].marker
    /\ Len(chdir[ch].processed) = 1

\* C5: a resumed run that ends by itself ends as the uninterrupted run with
\* its command line ends, having handed the encoders the same parts.
C5_ResumedRunSameParts ==
    (pc \in {"done", "aborted"} /\ run.resume_mode) =>
        /\ pc = Uninterrupted(args, catalog).status
        /\ encoder = Uninterrupted(args, catalog).encoder

\* -------------------------------------------- the packer as a step machine
MainIdle ==
    /\ pc = "idle"
    /\ args = BaseArgs
    /\ catalog = [c \in AllChapters |-> "normal"]
    /\ EmptyDisk
    /\ run = InitRun
    /\ encoder = <<>>
    /\ chapter_files = <<>>
    /\ invocations = 0

PackInit ==
    /\ MainIdle
    /\ \E format \in PackedFormats, epub_layout \in Layouts,
          width_arg \in WidthArgs, aspect_arg \in AspectArgs :
           LET width == EffectiveWidth(format, epub_layout, width_arg)
               aspect == EffectiveAspect(format, epub_layout, aspect_arg)
           IN \E paths \in SeqsUpTo(StripFiles(width), MaxStrips) :
                  pk = PackStart(paths, width,
                                 RecombineTargetHeight(width, aspect))

PackFor == pk.pc = "for" /\ pk' = ForStep(pk) /\ UNCHANGED mainVars

PackWhile == pk.pc = "while" /\ pk' = WhileStep(pk) /\ UNCHANGED mainVars

PackEnd == pk.pc = "end" /\ pk' = EndStep(pk) /\ UNCHANGED mainVars

PackNext == PackFor \/ PackWhile \/ PackEnd

SpecPack == PackInit /\ [][PackNext]_vars

\* ------------------------------------------------------ packer properties
DecodedStrips == Decoded(pk.input_paths, 1, pk.target_w)

PackDone == pk.pc = "done"

\* A page that holds rows of two different strips.
MixedPage(page) == \E a, b \in DOMAIN page : page[a][1] # page[b][1]

\* Two consecutive pages that split one strip between them.
SplitStrip(pages) ==
    \E k \in 1..(Len(pages) - 1) :
        pages[k][Len(pages[k])][1] = pages[k + 1][1][1]

\* C6: for target height > 0 no emitted page is taller than the target
\* height, and every emitted page except possibly the last page of the
\* finished run has exactly the target height.
C6_PageHeights ==
    pk.target_h > 0 =>
        \A k \in DOMAIN pk.final_pages :
            /\ Height(pk.final_pages[k]) <= pk.target_h
            /\ (k < Len(pk.final_pages) \/ ~PackDone)
                   => Height(pk.final_pages[k]) = pk.target_h

C6_Witness ==
    /\ PackDone /\ pk.target_h > 0
    /\ Len(pk.final_pages) >= 2
    /\ Height(pk.final_pages[Len(pk.final_pages)]) < pk.target_h
    /\ \E k \in DOMAIN pk.final_pages : MixedPage(pk.final_pages[k])

\* C7: for target height > 0 the heights of the emitted pages sum to the
\* heights of the width-normalised, decoded input strips.
C7_HeightConservation ==
    (PackDone /\ pk.target_h > 0) =>
        SumHeights(pk.final_pages) = SumHeights(DecodedStrips)

C7_Witness ==
    /\ PackDone /\ pk.target_h > 0
    /\ Len(pk.final_pages) >= 2
    /\ Len(DecodedStrips) >= 2
    /\ Len(DecodedStrips) < Len(pk.input_paths)
    /\ \E i \in DOMAIN pk.input_paths :
           /\ pk.input_paths[i] # Corrupt
           /\ pk.input_paths[i].w # pk.target_w

\* C8: for target height > 0 the rows of the emitted pages, concatenated in
\* output order, are the rows of the input strips concatenated in input
\* order: none dropped, duplicated or reordered.
C8_RowsPreserved ==
    (PackDone /\ pk.target_h > 0) =>
        Concat(pk.final_pages) = Concat(DecodedStrips)

C8_Witness ==
    /\ PackDone /\ pk.target_h > 0
    /\ Len(DecodedStrips) >= 2
    /\ SplitStrip(pk.final_pages)
    /\ \E k \in DOMAIN pk.final_pages : MixedPage(pk.final_pages[k])

\* C9: a single strip of height h > target height > 0 packs into
\* ceil(h / target) pages, the last of height h mod target, or of the target
\* height when h is a multiple of it.
C9_SingleTallStrip ==
    (/\ PackDone /\ pk.target_h > 0
     /\ Len(pk.input_paths) = 1 /\ Len(DecodedStrips) = 1
     /\ Height(DecodedStrips[1]) > pk.target_h) =>
        LET h == Height(DecodedStrips[1])
            t == pk.target_h
        IN /\ Len(pk.final_pages) = (h + t - 1) \div t
           /\ Height(pk.final_pages[Len(pk.final_pages)])
                  = (IF h % t = 0 THEN t ELSE h % t)

C9_Witness ==
    /\ PackDone /\ pk.target_h > 1
    /\ Len(pk.input_paths) = 1 /\ Len(DecodedStrips) = 1
    /\ Height(DecodedStrips[1]) > pk.target_h
    /\ Height(DecodedStrips[1]) % pk.target_h # 0
    /\ Len(pk.final_pages) >= 2

\* C10: with target height 0 the packer terminates (an iteration of its
\* while loop never leaves its state as it found it, which would repeat for
\* ever) and returns one page per decoded strip, each equal to that strip.
C10_ZeroTargetOnePagePerStrip ==
    pk.target_h = 0 =>
        /\ pk.pc = "while" => WhileStep(pk) # pk
        /\ PackDone => pk.final_pages = DecodedStrips

\* The positions of the strips that can be opened, and the pages of a run
\* over those strips alone with each row named by the position its strip
\* has in the full sequence.
RECURSIVE KeptPositions(_, _)
KeptPositions(paths, i) ==
    IF i > Len(paths) THEN <<>>
    ELSE (IF paths[i] = Corrupt THEN <<>> ELSE <<i>>)
             \o KeptPositions(paths, i + 1)

Renamed(pages, positions) ==
    [k \in DOMAIN pages |->
        [r \in DOMAIN pages[k] |->
            <<positions[pages[k][r][1]], pages[k][r][2]>>]]

WithoutCorrupted(paths) == SelectSeq(paths, LAMBDA f : f # Corrupt)

\* C11: a strip that cannot be opened is skipped and leaves the buffer and
\* the emitted pages as they are, and the packer returns for a sequence
\* with corrupted strips what it returns for the sequence without them.
C11_CorruptedSkipped ==
    [][/\ (/\ pk.pc = "for" /\ pk.i < Len(pk.input_paths)
           /\ pk.input_paths[pk.i + 1] = Corrupt) =>
              /\ pk'.page_buffer = pk.page_buffer
              /\ pk'.buffer_height = pk.buffer_height
              /\ pk'.final_pages = pk.final_pages
              /\ pk'.pc = "for" /\ pk'.i = pk.i + 1
       /\ pk'.pc = "done" =>
              pk'.final_pages =
                  Renamed(process_chapter_images(
                              WithoutCorrupted(pk.input_paths),
                              pk.target_w, pk.target_h),
                          KeptPositions(pk.input_paths, 1))]_vars

\* The run has returned a page that joins the strips before and after a
\* corrupted one.
C11_Witness ==
    /\ PackDone /\ pk.target_h > 0
    /\ \E i \in 2..(Len(pk.input_paths) - 1) :
           /\ pk.input_paths[i] = Corrupt
           /\ \E k \in DOMAIN pk.final_pages :
                  \E a, b \in DOMAIN pk.final_pages[k] :
                      /\ pk.final_pages[k][a][1] = i - 1
                      /\ pk.final_pages[k][b][1] = i + 1

\* --------------------------------------------------- the rescaler alone
\* main(), from the packing of a chapter's images to images_to_save, as a
\* machine over pk: "scale" (before the scaling pass), "scaled" (before the
\* test that guards the recombination), "done", and "raised" when
\* Image.resize raises.  recombined tells whether recombine_scaled_images
\* was called.
Scalings == {50, 75, 100}

RescaleAspectArgs ==
    {Some(EmptySpec)} \cup {Some(Ratio(n, 1)) : n \in 1..MaxRatio}

RescaleArgs ==
    {[BaseArgs EXCEPT !.format = f, !.width = Some(2), !.aspect_ratio = x,
                      !.scaling = g] :
        f \in Formats, x \in RescaleAspectArgs, g \in Scalings}

RescaleStart(a, input_paths) ==
    [input_paths |-> input_paths,
     pages_in_memory |-> PagesInMemory(a, input_paths),
     scaled_images_in_mem |-> <<>>, images_to_save |-> <<>>,
     recombined |-> FALSE, pc |-> "scale"]

\* A guard that forgets the test of the scaling.
Recombines_AnyScaling(a) == a.format \in PackedFormats /\ TargetHeight(a) > 0

\* if args.scaling < 100 and args.format in ["epub", "cbz"] and
\* recombine_target_height > 0
Recombines(a) ==
    a.scaling < 100 /\ a.format \in PackedFormats /\ TargetHeight(a) > 0

ScaledWidth(a) == (Width(a) * a.scaling) \div 100

RescaleInit ==
    /\ pc = "idle"
    /\ args \in RescaleArgs
    /\ catalog = [c \in AllChapters |-> "normal"]
    /\ EmptyDisk
    /\ run = InitRun
    /\ encoder = <<>>
    /\ chapter_files = <<>>
    /\ invocations = 0
    /\ \E paths \in SeqsUpTo(StripFiles(Width(args)), MaxStrips) :
           /\ args.format \in PackedFormats
                  => PackReturns(paths, Width(args), TargetHeight(args))
           /\ pk = RescaleStart(args, paths)

RescaleScale ==
    /\ pk.pc = "scale"
    /\ pk' = IF ScaleRaises(pk.pages_in_memory, Width(args), args.scaling)
             THEN [pk EXCEPT !.pc = "raised"]
             ELSE [pk EXCEPT !.scaled_images_in_mem =
                                 ScaleAll(pk.pages_in_memory, args.scaling),
                             !.pc = "scaled"]
    /\ UNCHANGED mainVars

RescaleRecombine ==
    /\ pk.pc = "scaled"
    /\ Recombines(args)
    /\ pk' = [pk EXCEPT !.images_to_save =
                            recombine_scaled_images(pk.scaled_images_in_mem,
                                                    ScaledWidth(args),
                                                    TargetHeight(args)),
                        !.recombined = TRUE,
                        !.pc = "done"]
    /\ UNCHANGED mainVars

RescalePass ==
    /\ pk.pc = "scaled"
    /\ ~Recombines(args)
    /\ pk' = [pk EXCEPT !.images_to_save = pk.scaled_images_in_mem,
                        !.pc = "done"]
    /\ UNCHANGED mainVars

RescaleNext == RescaleScale \/ RescaleRecombine \/ RescalePass

SpecRescale == RescaleInit /\ [][RescaleNext]_vars

RescaleDone == pk.pc = "done"

\* The machine and ImagesToSave agree on what is saved.
RescaleAgrees ==
    RescaleDone => pk.images_to_save = ImagesToSave(args, pk.pages_in_memory)

\* ---------------------------------------------------- rescaler properties
\* The fill-the-gap packer of process_chapter_images run over images held
\* in memory: image k is read as a stored strip of the same size, and row
\* <<k, r>> of a page it returns is row r of image k.
AsFiles(images, width) ==
    [k \in DOMAIN images |-> [w |-> width, h |-> Height(images[k])]]

PackedFrom(images, width, target_h) ==
    process_chapter_images(AsFiles(images, width), width, target_h)

Repacked(images, width, target_h) ==
    LET pages == PackedFrom(images, width, target_h)
    IN [p \in DOMAIN pages |->
           [r \in DOMAIN pages[p] |-> images[pages[p][r][1]][pages[p][r][2]]]]

RepackedScaled ==
    Repacked(pk.scaled_images_in_mem, ScaledWidth(args), TargetHeight(args))

\* The packer, run over the scaled pages, would cut one of them.
RepackCuts ==
    SplitStrip(PackedFrom(pk.scaled_images_in_mem, ScaledWidth(args),
                          TargetHeight(args)))

AllButLast(pages) == 1..(Len(pages) - 1)

\* C12, as stated: the recombination returns what the fill-the-gap packer
\* returns for the scaled pages and the target height, so every recombined
\* page but the last is exactly as tall as the target.
C12_RecombineIsPacker ==
    (RescaleDone /\ pk.recombined) =>
        /\ pk.images_to_save = RepackedScaled
        /\ \A k \in AllButLast(pk.images_to_save) :
               Height(pk.images_to_save[k]) = TargetHeight(args)

\* C12, amended: the recombination stacks whole scaled pages, so it returns
\* what the fill-the-gap packer returns exactly when that packer would cut
\* no scaled page; no recombined page is taller than the target, and every
\* one but the last is exactly as tall when the height of the scaled pages
\* divides the target.
C12_RecombineStacksWholePages ==
    (RescaleDone /\ pk.recombined) =>
        /\ (pk.images_to_save = RepackedScaled) <=> ~RepackCuts
        /\ \A k \in DOMAIN pk.images_to_save :
               Height(pk.images_to_save[k]) <= TargetHeight(args)
        /\ (\A j \in AllButLast(pk.scaled_images_in_mem) :
                TargetHeight(args) % Height(pk.scaled_images_in_mem[j]) = 0)
               => \A k \in AllButLast(pk.images_to_save) :
                      Height(pk.images_to_save[k]) = TargetHeight(args)

\* A recombination that stacked scaled pages into more than one page.
C12_Witness ==
    /\ RescaleDone /\ pk.recombined
    /\ Len(pk.images_to_save) >= 2
    /\ Len(pk.images_to_save) < Len(pk.scaled_images_in_mem)
    /\ ~RepackCuts

\* C13: at scaling 100 the pages to save are the pages that came in, same
\* count, order and sizes, the scaling pass does not raise, and the
\* recombination is not called; with target height 0 the recombination is
\* not called for any scaling, and the scaled pages are saved as they are.
C13_PassThrough ==
    /\ args.scaling = 100 =>
           /\ pk.pc # "raised"
           /\ ~pk.recombined
           /\ RescaleDone => pk.images_to_save = pk.pages_in_memory
    /\ TargetHeight(args) = 0 =>
           /\ ~pk.recombined
           /\ RescaleDone => pk.images_to_save = pk.scaled_images_in_mem

\* Several packed pages have gone through the rescaler at scaling 100 with
\* a target height that would let the recombination run.
C13_Witness ==
    /\ RescaleDone
    /\ args.scaling = 100
    /\ args.format \in PackedFormats /\ TargetHeight(args) > 0
    /\ Len(pk.pages_in_memory) >= 2
    /\ Height(pk.pages_in_memory[Len(pk.pages_in_memory)]) < TargetHeight(args)

\* ------------------------------------------------- the version selector
\* A chapter version as the catalog serves it: up_count (NoArg when the key
\* is missing), md_chapters_groups (per entry the title of its md_groups,
\* NoArg when the entry has none) and group_name (NoArg for none, else a
\* list of names).
MaxUp == 1

MaxVersions == 3

UpCounts == {NoArg} \cup {Some(n) : n \in 0..MaxUp}

GroupData ==
    {[md_chapters_groups |-> <<>>, group_name |-> NoArg],
     [md_chapters_groups |-> <<Some("A")>>, group_name |-> NoArg],
     [md_chapters_groups |-> <<NoArg, Some("B")>>, group_name |-> Some(<<"A">>)],
     [md_chapters_groups |-> <<Some("")>>, group_name |-> Some(<<"C", "A">>)]}

Versions ==
    {[up_count |-> u, md_chapters_groups |-> g.md_chapters_groups,
      group_name |-> g.group_name] : u \in UpCounts, g \in GroupData}

PreferredGroups == {<<>>, <<"A", "B">>, <<"B", "C">>}

\* The group name None.
NoGroup == <<>>

\* get_group_name: the title of the first entry that has md_groups, if it
\* is not empty; else the first name of group_name; else None.
get_group_name(chapter_version) ==
    LET titled == SelectSeq(chapter_version.md_chapters_groups,
                            LAMBDA g : g # NoArg)
        structured_name == IF titled = <<>> THEN "" ELSE titled[1][1]
        fallback_names == chapter_version.group_name
    IN IF structured_name # "" THEN Some(structured_name)
       ELSE IF fallback_names # NoArg /\ fallback_names[1] # <<>>
            THEN Some(fallback_names[1][1])
       ELSE NoGroup

\* v.get("up_count", 0)
UpCount(v) == IF v.up_count = NoArg THEN 0 ELSE v.up_count[1]

\* A max that keeps the last of several largest elements.
RECURSIVE MaxFrom_LastWins(_, _, _, _)
MaxFrom_LastWins(versions, candidates, k, best) ==
    IF k > Len(candidates) THEN best
    ELSE MaxFrom_LastWins(versions, candidates, k + 1,
                          IF UpCount(versions[candidates[k]])
                                 >= UpCount(versions[best])
                          THEN candidates[k] ELSE best)

\* max(candidates, key=up_count) of Python: a later element replaces the
\* best so far only when its key is strictly larger.
RECURSIVE MaxFrom(_, _, _, _)
MaxFrom(versions, candidates, k, best) ==
    IF k > Len(candidates) THEN best
    ELSE MaxFrom(versions, candidates, k + 1,
                 IF UpCount(versions[candidates[k]]) > UpCount(versions[best])
                 THEN candidates[k] ELSE best)

\* The position in versions of max(candidates, ...), candidates being a
\* non-empty list of positions.
MaxByUpCount(versions, candidates) ==
    MaxFrom(versions, candidates, 2, candidates[1])

Positions(versions) == [i \in DOMAIN versions |-> i]

InList(x, list) == \E k \in DOMAIN list : list[k] = x

\* A filter that lets every version through.
FromPreferred_All(versions, preferred_groups) == Positions(versions)

\* [v for v in versions if get_group_name(v) in preferred_groups]
FromPreferred(versions, preferred_groups) ==
    SelectSeq(Positions(versions),
              LAMBDA i : /\ get_group_name(versions[i]) # NoGroup
                         /\ InList(get_group_name(versions[i])[1],
                                   preferred_groups))

\* [v for v in versions if get_group_name(v) == group_name]
FromThisGroup(versions, group_name) ==
    SelectSeq(Positions(versions),
              LAMBDA i : get_group_name(versions[i]) = Some(group_name))

\* A loop in which a later preferred group wins over an earlier one.
RECURSIVE PriorityLoop_LastGroup(_, _, _)
PriorityLoop_LastGroup(versions, preferred_groups, k) ==
    IF k > Len(preferred_groups) THEN 0
    ELSE LET from_this_group == FromThisGroup(versions, preferred_groups[k])
             later == PriorityLoop_LastGroup(versions, preferred_groups, k + 1)
         IN IF later # 0 THEN later
            ELSE IF from_this_group # <<>>
            THEN MaxByUpCount(versions, from_this_group)
            ELSE 0

\* for group_name in preferred_groups: ...; 0 when the loop ends without a
\* return.
RECURSIVE PriorityLoop(_, _, _)
PriorityLoop(versions, preferred_groups, k) ==
    IF k > Len(preferred_groups) THEN 0
    ELSE LET from_this_group == FromThisGroup(versions, preferred_groups[k])
         IN IF from_this_group # <<>>
            THEN MaxByUpCount(versions, from_this_group)
            ELSE PriorityLoop(versions, preferred_groups, k + 1)

\* A selection whose fallback is the first version of the list.
select_best_FallbackFirst(versions, preferred_groups, mix_by_upvote) ==
    IF versions = <<>> THEN 0
    ELSE LET best_by_upvote == MaxByUpCount(versions, Positions(versions))
         IN IF preferred_groups = <<>> THEN best_by_upvote
            ELSE IF mix_by_upvote
            THEN LET from_preferred == FromPreferred(versions, preferred_groups)
                 IN IF from_preferred # <<>>
                    THEN MaxByUpCount(versions, from_preferred)
                    ELSE 1
            ELSE LET best == PriorityLoop(versions, preferred_groups, 1)
                 IN IF best # 0 THEN best ELSE 1

\* select_best_chapter_version: the position of the returned version in
\* versions, 0 for None.
select_best_chapter_version(versions, preferred_groups, mix_by_upvote) ==
    IF versions = <<>> THEN 0
    ELSE LET best_by_upvote == MaxByUpCount(versions, Positions(versions))
         IN IF preferred_groups = <<>> THEN best_by_upvote
            ELSE IF mix_by_upvote
            THEN LET from_preferred == FromPreferred(versions, preferred_groups)
                 IN IF from_preferred # <<>>
                    THEN MaxByUpCount(versions, from_preferred)
                    ELSE best_by_upvote
            ELSE LET best == PriorityLoop(versions, preferred_groups, 1)
                 IN IF best # 0 THEN best ELSE best_by_upvote

\* The selection for one chapter number as a machine over pk: "select"
\* before the call, "selected" after it.  main() calls it with the versions
\* of a chapter number that has at least one.
SelectStart(versions) ==
    [versions |-> versions, best_version |-> 0, pc |-> "select"]

SelectInit ==
    /\ pc = "idle"
    /\ \E g \in PreferredGroups, m \in BOOLEAN :
           args = [BaseArgs EXCEPT !.group = g, !.mix_by_upvote = m]
    /\ catalog = [c \in AllChapters |-> "normal"]
    /\ EmptyDisk
    /\ run = InitRun
    /\ encoder = <<>>
    /\ chapter_files = <<>>
    /\ invocations = 0
    /\ \E versions \in SeqsUpTo(Versions, MaxVersions) \ {<<>>} :
           pk = SelectStart(versions)

Select ==
    /\ pk.pc = "select"
    /\ pk' = [pk EXCEPT !.best_version =
                            select_best_chapter_version(pk.versions, args.group,
                                                        args.mix_by_upvote),
                        !.pc = "selected"]
    /\ UNCHANGED mainVars

SelectNext == Select

SpecSelect == SelectInit /\ [][SelectNext]_vars

\* ---------------------------------------------------- selector properties
Selected == pk.pc = "selected"

Group(i) == get_group_name(pk.versions[i])

Up(i) == UpCount(pk.versions[i])

\* The versions whose group is one of the preferred groups.
Preferred ==
    {i \in DOMAIN pk.versions :
        \E k \in DOMAIN args.group : Group(i) = Some(args.group[k])}

\* C14: for a non-empty version list and no preferred groups the returned
\* version has the largest up_count of the list and is the first of the
\* versions that have it.
C14_MaxUpvoteFirst ==
    (Selected /\ pk.versions # <<>> /\ args.group = <<>>) =>
        /\ pk.best_version \in DOMAIN pk.versions
        /\ \A j \in DOMAIN pk.versions : Up(j) <= Up(pk.best_version)
        /\ \A j \in 1..(pk.best_version - 1) : Up(j) < Up(pk.best_version)

C14_Witness ==
    /\ Selected /\ args.group = <<>>
    /\ pk.best_version = 2
    /\ Len(pk.versions) = 3
    /\ Up(3) = Up(2) /\ Up(1) < Up(2)

\* C15: in priority mode, when some version is of a preferred group, the
\* returned version is of the earliest preferred group that has a version
\* and has the largest up_count of that group's versions, whatever the
\* up_counts of the other versions; so it is of the first preferred group
\* whenever that group has a version.
C15_PriorityOrder ==
    (/\ Selected /\ args.group # <<>> /\ ~args.mix_by_upvote
     /\ Preferred # {}) =>
        LET has(k) == \E i \in DOMAIN pk.versions : Group(i) = Some(args.group[k])
            earliest == CHOOSE k \in DOMAIN args.group :
                            has(k) /\ \A l \in 1..(k - 1) : ~has(l)
        IN /\ pk.best_version \in DOMAIN pk.versions
           /\ Group(pk.best_version) = Some(args.group[earliest])
           /\ \A j \in DOMAIN pk.versions :
                  Group(j) = Some(args.group[earliest])
                      => Up(j) <= Up(pk.best_version)
           /\ has(1) => Group(pk.best_version) = Some(args.group[1])

\* The first preferred group has a version, and versions of the second
\* preferred group and of no preferred group have more upvotes.
C15_Witness ==
    /\ Selected /\ args.group # <<>> /\ ~args.mix_by_upvote
    /\ pk.versions # <<>>
    /\ Group(pk.best_version) = Some(args.group[1])
    /\ \E j \in DOMAIN pk.versions :
           Group(j) = Some(args.group[2]) /\ Up(j) > Up(pk.best_version)
    /\ \E j \in DOMAIN pk.versions \ Preferred : Up(j) > Up(pk.best_version)

\* C16: in mix-by-upvote mode, when some version is of a preferred group,
\* the returned version is one of the versions of preferred groups and has
\* the largest up_count among them.
C16_MixByUpvote ==
    (/\ Selected /\ args.group # <<>> /\ args.mix_by_upvote
     /\ Preferred # {}) =>
        /\ pk.best_version \in Preferred
        /\ \A j \in Preferred : Up(j) <= Up(pk.best_version)

\* The returned version is of the second preferred group, the first
\* preferred group has a version too, and a version of no preferred group
\* has more upvotes.
C16_Witness ==
    /\ Selected /\ args.group # <<>> /\ args.mix_by_upvote
    /\ pk.versions # <<>>
    /\ Group(pk.best_version) = Some(args.group[2])
    /\ \E j \in DOMAIN pk.versions : Group(j) = Some(args.group[1])
    /\ \E j \in DOMAIN pk.versions \ Preferred : Up(j) > Up(pk.best_version)

\* C17: when no version is of a preferred group, the returned version is
\* the same in priority mode and in mix-by-upvote mode, and the same as for
\* the same version list with no preferred groups.
C17_FallbackEqualsNoGroups ==
    (Selected /\ args.group # <<>> /\ Preferred = {}) =>
        /\ pk.best_version =
               select_best_chapter_version(pk.versions, <<>>,
                                           args.mix_by_upvote)
        /\ pk.best_version =
               select_best_chapter_version(pk.versions, args.group,
                                           ~args.mix_by_upvote)

\* Versions of groups that are not preferred, the best of them not the
\* first of the list.
C17_Witness ==
    /\ Selected /\ args.group # <<>> /\ Preferred = {}
    /\ Len(pk.versions) >= 2
    /\ pk.best_version > 1
    /\ \E j \in DOMAIN pk.versions : Group(j) # NoGroup

\* ------------------------------------------------- the accumulator alone
\* main() from the placing of the cover (src 1368-1379) to the final build,
\* over chapters whose content is given: pk.sizes[c] is the size of what
\* chapter c contributes, 0 when it produces no output, and pk.cover the
\* size of the downloaded cover image, 0 when the comic has none.  The loop
\* is reached with at least one selected chapter.
MaxChapters == 4

\* The sizes of a chapter's output: none, small, large.
ChapterSizes == {0, 1, 3}

MaxSplit == 3

CoverSizes == {0, 2}

SplitArgs ==
    {NoArg} \cup {SplitCh(n) : n \in 1..MaxSplit}
            \cup {SplitBytes(n) : n \in 1..MaxSplit}

CoverFile(size) == PageFile(0, 0, Strip(0, size))

\* current_book_content and its companions before the first chapter: for
\* cbz the cover, when there is one, is the first entry and counts in
\* current_book_size.
CoverBook(a, cover) ==
    IF a.format = "cbz" /\ cover > 0
    THEN [content |-> <<CoverFile(cover)>>, chapters |-> <<>>, size |-> cover]
    ELSE EmptyBook

\* The saved pages of a chapter of the given size: one page, or two when
\* the size allows it.
ChapterPages(c, size) ==
    IF size > 2 THEN <<Strip(c, 1), Strip(c, size - 1)>> ELSE <<Strip(c, size)>>

\* What chapter c contributes when its pages have the given size together.
ChapterOutput(a, c, size) ==
    IF size = 0 THEN <<>>
    ELSE ProcessedContent(a, c, PageFiles(c, ChapterPages(c, size)))

\* get_group_name(ch) of the selected release of chapter c: the first has a
\* group, the second none, the third another group.
ChapterGroup(c) ==
    CASE c % 3 = 1 -> Some("A")
      [] c % 3 = 2 -> NoGroup
      [] OTHER -> Some("B")

\* current_book_scan_groups.add(grp_name), if grp_name
AddGroup(scan_groups, grp_name) ==
    IF grp_name # NoGroup THEN scan_groups \cup {grp_name[1]} ELSE scan_groups

\* A marker at the page after the chapter's last page.
AddMarker_AtEnd(a, epub_markers, c, book, chapter_content) ==
    IF a.format = "epub"
    THEN Append(epub_markers, [ch |-> c, page_index |-> Len(book.content)])
    ELSE epub_markers

\* current_epub_markers.append({"ch": ch, "page_index": start_page_index})
AddMarker(a, epub_markers, c, book, chapter_content) ==
    IF a.format = "epub"
    THEN Append(epub_markers,
                [ch |-> c,
                 page_index |-> Len(book.content) - Len(chapter_content)])
    ELSE epub_markers

\* build_book_part: book_chapters[0] raises IndexError for content without
\* a chapter.
BuildRaises(book) == book.content # <<>> /\ book.chapters = <<>>

AccInit ==
    /\ pc = "acc_loop"
    /\ \E f \in Formats, x \in SplitArgs :
           args = [BaseArgs EXCEPT !.format = f, !.split = x]
    /\ catalog = [c \in AllChapters |-> "normal"]
    /\ EmptyDisk
    /\ encoder = <<>>
    /\ chapter_files = <<>>
    /\ invocations = 0
    /\ \E sizes \in SeqsUpTo(ChapterSizes, MaxChapters) \ {<<>>},
          cover \in CoverSizes :
           /\ pk = [sizes |-> sizes, cover |-> cover,
                    scan_groups |-> {}, epub_markers |-> <<>>]
           /\ run = [InitRun EXCEPT !.chapters = [c \in DOMAIN sizes |-> c],
                                    !.book = CoverBook(args, cover)]

AccContent == ChapterOutput(args, run.ci + 1, pk.sizes[run.ci + 1])

\* if not chapter_content: continue
AccSkip ==
    /\ pc = "acc_loop"
    /\ run.ci < Len(run.chapters)
    /\ AccContent = <<>>
    /\ run' = [run EXCEPT !.ci = @ + 1]
    /\ UNCHANGED <<pk, pc, args, catalog, tmp_dir, params_file, chdir, tmp_pdf,
                   encoder, chapter_files, invocations>>

\* The split test, the flush and the accumulation of one chapter.
AccOffer ==
    /\ pc = "acc_loop"
    /\ run.ci < Len(run.chapters)
    /\ AccContent # <<>>
    /\ LET o == Offer(args, run.book, run.ci + 1, AccContent,
                      SumSizes(AccContent))
       IN IF o.flushed /\ BuildRaises(run.book)
          THEN pc' = "acc_raised" /\ UNCHANGED <<pk, run, encoder>>
          ELSE /\ pc' = pc
               /\ encoder' = encoder \o o.built
               /\ run' = [run EXCEPT !.ci = @ + 1, !.book = o.book]
               /\ pk' = [pk EXCEPT
                            !.scan_groups =
                                AddGroup(IF o.flushed THEN {} ELSE @,
                                         ChapterGroup(run.ci + 1)),
                            !.epub_markers =
                                AddMarker(args, IF o.flushed THEN <<>> ELSE @,
                                          run.ci + 1, o.book, AccContent)]
    /\ UNCHANGED <<args, catalog, tmp_dir, params_file, chdir, tmp_pdf,
                   chapter_files, invocations>>

\* if current_book_content: the last part, or the whole book.
AccFinal ==
    /\ pc = "acc_loop"
    /\ run.ci = Len(run.chapters)
    /\ IF /\ run.book.content # <<>> /\ args.format # "none"
          /\ (split_size_bytes(args) > 0 \/ split_chapter_count(args) > 0)
          /\ BuildRaises(run.book)
       THEN pc' = "acc_raised" /\ UNCHANGED encoder
       ELSE pc' = "acc_done" /\ encoder' = encoder \o FinalBuild(args, run.book)
    /\ UNCHANGED <<pk, args, catalog, tmp_dir, params_file, chdir, tmp_pdf, run,
                   chapter_files, invocations>>

AccNext == AccSkip \/ AccOffer \/ AccFinal

SpecAcc == AccInit /\ [][AccNext]_vars

\* ------------------------------------------------- accumulator properties
AccEnded == pc \in {"acc_done", "acc_raised"}

PartSize(part) == SumSizes(part.content)

RECURSIVE PartChapters(_)
PartChapters(parts) ==
    IF parts = <<>> THEN <<>>
    ELSE Head(parts).chapters \o PartChapters(Tail(parts))

\* The chapters that produce output, in order.
Producing == SelectSeq(run.chapters, LAMBDA c : pk.sizes[c] > 0)

IsPrefix(s, t) == Len(s) <= Len(t) /\ s = SubSeq(t, 1, Len(s))

\* C18: with a byte threshold T every part handed to the encoder, the last
\* one included, has accumulated size at most T unless it holds a single
\* chapter whose own size exceeds T; the chapters of the parts, in part
\* order, are the chapters that produced output, in chapter order.
C18_PartsWithinThreshold ==
    split_size_bytes(args) > 0 =>
        /\ \A k \in DOMAIN encoder :
               \/ PartSize(encoder[k]) <= split_size_bytes(args)
               \/ /\ Len(encoder[k].chapters) = 1
                  /\ pk.sizes[encoder[k].chapters[1]] > split_size_bytes(args)
        /\ IsPrefix(PartChapters(encoder), Producing)
        /\ (pc = "acc_done" /\ args.format # "none")
               => PartChapters(encoder) = Producing

\* A finished run whose parts are one of two chapters that fills the
\* threshold and one of a single chapter larger than the threshold.
C18_Witness ==
    /\ pc = "acc_done" /\ split_size_bytes(args) > 0
    /\ \E k \in DOMAIN encoder :
           /\ Len(encoder[k].chapters) = 2
           /\ PartSize(encoder[k]) = split_size_bytes(args)
    /\ \E k \in DOMAIN encoder :
           /\ Len(encoder[k].chapters) = 1
           /\ PartSize(encoder[k]) > split_size_bytes(args)

C20_FlushHoldsAChapter ==
    [][/\ (/\ pc = "acc_loop" /\ run.ci < Len(run.chapters)
           /\ AccContent # <<>>
           /\ Offer(args, run.book, run.ci + 1, AccContent,
                    SumSizes(AccContent)).flushed)
              => run.book.chapters # <<>>
       /\ pc' # "acc_raised"
       /\ \A k \in DOMAIN encoder' :
              encoder'[k].kind = "part" => encoder'[k].chapters # <<>>]_vars

\* The step that accumulates a chapter after a flush.
FlushStep ==
    /\ pc = "acc_loop" /\ pc' = "acc_loop"
    /\ run.ci < Len(run.chapters) /\ run'.ci = run.ci + 1
    /\ AccContent # <<>>
    /\ \/ should_split_by_size(args, run.book, SumSizes(AccContent))
       \/ should_split_by_chapters(args, run.book)

\* C21: after a flush the accumulator holds the triggering chapter and
\* nothing else: its content, its size, its number, its group and (for
\* epub) its marker at page index 0; what was accumulated before is, for a
\* book format, the part the encoder was handed in that step.
C21_FlushResets ==
    [][FlushStep =>
          /\ run'.book.content = AccContent
          /\ run'.book.size = SumSizes(AccContent)
          /\ run'.book.chapters = <<run.ci + 1>>
          /\ pk'.scan_groups =
                 (IF ChapterGroup(run.ci + 1) = NoGroup THEN {}
                  ELSE {ChapterGroup(run.ci + 1)[1]})
          /\ pk'.epub_markers =
                 (IF args.format = "epub"
                  THEN <<[ch |-> run.ci + 1, page_index |-> 0]>> ELSE <<>>)
          /\ args.format # "none" =>
                 /\ Len(encoder') = Len(encoder) + 1
                 /\ encoder'[Len(encoder')].content = run.book.content
                 /\ encoder'[Len(encoder')].chapters = run.book.chapters]_vars

\* An epub flush has left behind a part of two chapters, one of them of
\* group "A", and the accumulator holds the chapter of group "B" that
\* triggered it, with its marker alone.
C21_Witness ==
    /\ pc = "acc_loop" /\ args.format = "epub"
    /\ encoder # <<>>
    /\ encoder[Len(encoder)].chapters = <<1, 2>>
    /\ encoder[Len(encoder)].content # <<>>
    /\ run.book.chapters = <<3>>
    /\ pk.scan_groups = {"B"}
    /\ Len(pk.epub_markers) = 1

RECURSIVE PartContent(_)
PartContent(parts) ==
    IF parts = <<>> THEN <<>>
    ELSE Head(parts).content \o PartContent(Tail(parts))

\* What the chapters numbered from c on contribute, in chapter order.
RECURSIVE OutputFrom(_)
OutputFrom(c) ==
    IF c > Len(run.chapters) THEN <<>>
    ELSE ChapterOutput(args, c, pk.sizes[c]) \o OutputFrom(c + 1)

\* C22: when a run for pdf, epub or cbz completes, every chapter that
\* produced output is in exactly one of the parts handed to the encoder,
\* with its output; each part holds chapters that follow one another among
\* the chapters with output, in ascending order; and what was accumulated
\* at the end of the input is the last part.
C22_EveryChapterInOnePart ==
    (pc = "acc_done" /\ args.format # "none") =>
        /\ \A c \in DOMAIN run.chapters :
               pk.sizes[c] > 0 =>
                   Cardinality({k \in DOMAIN encoder :
                                   InList(c, encoder[k].chapters)}) = 1
        /\ PartChapters(encoder) = Producing
        /\ PartContent(encoder) =
               CoverBook(args, pk.cover).content \o OutputFrom(1)
        /\ \A k \in DOMAIN encoder :
               \A i \in DOMAIN encoder[k].content :
                   encoder[k].content[i].ch \in
                       {0} \cup {encoder[k].chapters[j] :
                                    j \in DOMAIN encoder[k].chapters}
        /\ run.book.chapters # <<>> =>
               /\ encoder # <<>>
               /\ encoder[Len(encoder)].chapters = run.book.chapters
               /\ encoder[Len(encoder)].content = run.book.content

\* A completed run with a byte threshold: a chapter without output, two
\* parts or more, and a remainder of one chapter as the last part.
C22_Witness ==
    /\ pc = "acc_done" /\ args.format = "pdf"
    /\ split_size_bytes(args) > 0
    /\ Len(Producing) < Len(run.chapters)
    /\ Len(encoder) >= 2
    /\ Len(encoder[1].chapters) = 2
    /\ Len(run.book.chapters) = 1

NoSplit == split_size_bytes(args) = 0 /\ split_chapter_count(args) = 0

\* What a run without splitting has accumulated when every chapter is done.
WholeBook == CoverBook(args, pk.cover).content \o OutputFrom(1)

\* C23, as stated: without splitting nothing is handed to the encoder
\* before the end of the input, and at the end it is handed, once, the
\* output of all chapters in chapter order.
C23_OneBuildOfEverything ==
    NoSplit =>
        /\ pc = "acc_loop" => encoder = <<>>
        /\ pc = "acc_done" =>
               /\ Len(encoder) = 1
               /\ encoder[1].content = WholeBook
               /\ encoder[1].chapters = Producing

\* C23, amended: without splitting nothing is handed to the encoder before
\* the end of the input; at the end a run for pdf, epub or cbz that has
\* accumulated anything hands it over once, the cbz cover first and then
\* the output of all chapters in chapter order; a run that has accumulated
\* nothing, and a run for format none, hand over nothing.
C23_OneBuildIfAnything ==
    NoSplit =>
        /\ pc # "acc_raised"
        /\ pc = "acc_loop" => encoder = <<>>
        /\ pc = "acc_done" =>
               IF args.format = "none" \/ WholeBook = <<>>
               THEN encoder = <<>>
               ELSE /\ Len(encoder) = 1
                    /\ encoder[1].kind = "book"
                    /\ encoder[1].content = WholeBook
                    /\ encoder[1].chapters = Producing

\* A completed cbz run without splitting: a cover, three chapters with
\* output and one without, one book.
C23_Witness ==
    /\ pc = "acc_done" /\ NoSplit
    /\ args.format = "cbz" /\ pk.cover > 0
    /\ Len(run.chapters) = 4 /\ Len(Producing) = 3
    /\ Len(encoder) = 1
    /\ Len(encoder[1].content) = 4

\* C24: every part is named by the number of its first chapter and the
\* number of its last chapter, and no two parts of a run have the same
\* name.
C24_PartNames ==
    /\ \A k \in DOMAIN encoder :
           encoder[k].kind = "part" =>
               /\ encoder[k].chapters # <<>>
               /\ encoder[k].name =
                      <<"Ch_", encoder[k].chapters[1], "-",
                        encoder[k].chapters[Len(encoder[k].chapters)]>>
    /\ \A j, k \in DOMAIN encoder :
           j # k => encoder[j].name # encoder[k].name

\* Three parts: one of two chapters and two of one chapter each.
C24_Witness ==
    /\ pc = "acc_done"
    /\ Len(encoder) = 3
    /\ \A k \in DOMAIN encoder : encoder[k].kind = "part"
    /\ \E k \in DOMAIN encoder : Len(encoder[k].chapters) = 2
    /\ \E j, k \in DOMAIN encoder :
           /\ j # k
           /\ Len(encoder[j].chapters) = 1 /\ Len(encoder[k].chapters) = 1
           /\ encoder[k].name[2] = encoder[k].name[4]

\* ------------------------------------------------- the chapter selection
\* main(), src 1268-1323 and the head of the chapter loop, as a machine over
\* pk.  A catalog entry is a version with its "chap" label: NoArg for a
\* missing label, else a string; float() of a label is kept in tenths, and
\* raises ValueError for a label that is no number.
MaxPool == 3

ChapLabels == {NoArg, Some("x"), Some("1"), Some("1.5"), Some("2"), Some("2.0")}

Malformed == 0 - 1

\* float(num_str), in tenths.
Float(num_str) ==
    CASE num_str = "1" -> 10
      [] num_str = "1.5" -> 15
      [] num_str = "2" -> 20
      [] num_str = "2.0" -> 20
      [] num_str = "99" -> 990
      [] OTHER -> Malformed

PoolVersions ==
    {[up_count |-> Some(1), md_chapters_groups |-> <<>>, group_name |-> NoArg],
     [up_count |-> NoArg, md_chapters_groups |-> <<Some("A")>>,
      group_name |-> NoArg]}

PoolEntries ==
    {[chap |-> l, up_count |-> v.up_count,
      md_chapters_groups |-> v.md_chapters_groups,
      group_name |-> v.group_name] : l \in ChapLabels, v \in PoolVersions}

\* The --chapters specs of the selection runs, and the parts of each after
\* split(","): a number, a range start-end, or a part that is neither.
RangeSpecs == {"all", "1", "1-2", "x,2"}

RangeParts(range_spec) ==
    CASE range_spec = "1" -> <<[start |-> 10, end |-> 10]>>
      [] range_spec = "1-2" -> <<[start |-> 10, end |-> 20]>>
      [] range_spec = "x,2" -> <<[start |-> Malformed, end |-> Malformed],
                                 [start |-> 20, end |-> 20]>>
      [] range_spec = "99" -> <<[start |-> 990, end |-> 990]>>
      [] OTHER -> <<>>

\* is_chapter_wanted on a float: some well-formed part holds the number.
InRange(chapter_num_float, range_spec) ==
    \E k \in DOMAIN RangeParts(range_spec) :
        LET part == RangeParts(range_spec)[k]
        IN /\ part.start # Malformed
           /\ part.start <= chapter_num_float
           /\ chapter_num_float <= part.end

\* chapters_by_num after the entries up to k: the labels in the order of
\* their first entry, each with the positions of its entries in pool order.
RECURSIVE GroupByLabel(_, _, _)
GroupByLabel(pool, k, by_num) ==
    IF k > Len(pool) THEN by_num
    ELSE LET num_str == pool[k].chap
             known == {j \in DOMAIN by_num : by_num[j].num = num_str[1]}
         IN IF num_str = NoArg \/ Float(num_str[1]) = Malformed
            THEN GroupByLabel(pool, k + 1, by_num)
            ELSE IF known = {}
            THEN GroupByLabel(pool, k + 1,
                              Append(by_num, [num |-> num_str[1],
                                              versions |-> <<k>>]))
            ELSE GroupByLabel(pool, k + 1,
                     [j \in DOMAIN by_num |->
                         IF j \in known
                         THEN [by_num[j] EXCEPT !.versions = Append(@, k)]
                         ELSE by_num[j]])

chapters_by_num(pool) == GroupByLabel(pool, 1, <<>>)

\* sorted(keys, key=float): a stable insertion sort.
RECURSIVE InsertByFloat(_, _)
InsertByFloat(sorted, g) ==
    IF sorted = <<>> THEN <<g>>
    ELSE IF Float(Head(sorted).num) <= Float(g.num)
    THEN <<Head(sorted)>> \o InsertByFloat(Tail(sorted), g)
    ELSE <<g>> \o sorted

RECURSIVE SortByFloat(_)
SortByFloat(by_num) ==
    IF by_num = <<>> THEN <<>>
    ELSE InsertByFloat(SortByFloat(SubSeq(by_num, 1, Len(by_num) - 1)),
                       by_num[Len(by_num)])

\* best_chapters: per label, in the order of sorted_chap_nums, the position
\* in the pool of the selected version.
best_chapters(a, pool) ==
    LET sorted == SortByFloat(chapters_by_num(pool))
    IN [j \in DOMAIN sorted |->
           LET versions == [i \in DOMAIN sorted[j].versions |->
                               pool[sorted[j].versions[i]]]
           IN sorted[j].versions[
                  select_best_chapter_version(versions, a.group,
                                              a.mix_by_upvote)]]

\* The --no-partials and --chapters filters.
FilteredChapters(a, pool) ==
    LET keeps(k) ==
            /\ a.no_partials => Float(pool[k].chap[1]) % 10 = 0
            /\ a.chapters # "all" => InRange(Float(pool[k].chap[1]), a.chapters)
    IN SelectSeq(best_chapters(a, pool), keeps)

ChooseStart(pool) ==
    [pool |-> pool, chapters |-> <<>>, visited |-> <<>>, pc |-> "choose"]

ChooseArgs ==
    {[BaseArgs EXCEPT !.chapters = c, !.no_partials = n, !.group = g] :
        c \in RangeSpecs, n \in BOOLEAN, g \in {<<>>, <<"A">>}}

ChooseInit ==
    /\ pc = "idle"
    /\ args \in ChooseArgs
    /\ catalog = [c \in AllChapters |-> "normal"]
    /\ EmptyDisk
    /\ run = InitRun
    /\ encoder = <<>>
    /\ chapter_files = <<>>
    /\ invocations = 0
    /\ \E pool \in SeqsUpTo(PoolEntries, MaxPool) : pk = ChooseStart(pool)

\* The selection; sys.exit("No chapters selected.") when it is empty.
Choose ==
    /\ pk.pc = "choose"
    /\ LET chapters == FilteredChapters(args, pk.pool)
       IN pk' = [pk EXCEPT !.chapters = chapters,
                           !.pc = IF chapters = <<>> THEN "exit" ELSE "loop"]
    /\ UNCHANGED mainVars

\* for ch in chapters: the next chapter is taken up.
Visit ==
    /\ pk.pc = "loop"
    /\ Len(pk.visited) < Len(pk.chapters)
    /\ pk' = [pk EXCEPT !.visited = Append(@, pk.chapters[Len(@) + 1])]
    /\ UNCHANGED mainVars

ChooseNext == Choose \/ Visit

SpecChoose == ChooseInit /\ [][ChooseNext]_vars

\* The numbers of the catalog's chapters that pass the filters, in tenths.
ChapterNumbers(a, pool) ==
    {Float(pool[k].chap[1]) :
        k \in {j \in DOMAIN pool :
                  /\ pool[j].chap # NoArg
                  /\ Float(pool[j].chap[1]) # Malformed
                  /\ a.no_partials => Float(pool[j].chap[1]) % 10 = 0
                  /\ a.chapters # "all"
                        => InRange(Float(pool[j].chap[1]), a.chapters)}}

ChapterNumber(k) == Float(pk.pool[k].chap[1])

\* C25: the selected chapter list holds exactly one release for every chapter
\* number of the catalog that passes the filters, and the chapters are taken
\* up one at a time in strictly ascending order of their number, also when
\* one number is labelled by different strings.
C25_OneReleasePerNumberAscending ==
    pk.pc = "loop"
        => /\ \A x \in ChapterNumbers(args, pk.pool) :
                  Cardinality({i \in DOMAIN pk.chapters :
                                  ChapterNumber(pk.chapters[i]) = x}) = 1
           /\ \A i \in DOMAIN pk.chapters :
                  ChapterNumber(pk.chapters[i]) \in ChapterNumbers(args, pk.pool)
           /\ IsPrefix(pk.visited, pk.chapters)
           /\ \A i, j \in DOMAIN pk.visited :
                  i < j => ChapterNumber(pk.visited[i]) < ChapterNumber(pk.visited[j])

\* C26: a run whose chapter set is empty after the selection and the filters
\* fails terminally: it stays at the exit, no chapter is processed, no part
\* is emitted and no encoder is invoked.
C26_EmptySelectionFails ==
    SelectedChapters(args) = <<>>
        => /\ pc = "exit"
           /\ run.chapters = <<>>
           /\ run.ci = 0
           /\ run.downloaded_images = <<>>
           /\ run.book = EmptyBook
           /\ encoder = <<>>
           /\ chapter_files = <<>>

C26_Witness ==
    /\ pc = "exit"
    /\ args.chapters = "99"
    /\ invocations = 2
    /\ tmp_dir
    /\ \E c \in AllChapters : chdir[c].marker

\* The orchestrator's states: 1 SELECT_CHAPTERS has failed, 2 RESUME_CHECK,
\* 3 PROCESS_CHAPTER, 4 FINALIZE, 5 the cleanup, 6 DONE; 0 for a process
\* that was killed or has aborted.
Phase(position) ==
    CASE position = "exit" -> 1
      [] position \in {"resume_check", "params_open", "params_dump"} -> 2
      [] position \in {"loop", "check", "clean", "download", "process",
                       "save", "mark", "emit", "offer"} -> 3
      [] position = "final" -> 4
      [] position = "cleanup" -> 5
      [] position = "done" -> 6
      [] OTHER -> 0

\* C27 as stated: the resume check is carried out before the chapters are
\* selected, so a run that ends at the selection has a run directory that
\* holds the fingerprint of its own parameters.
C27_ResumeCheckBeforeSelection == pc = "exit" => ResumeCompatible

\* C27: the states are passed in the order INIT, SELECT_CHAPTERS,
\* RESUME_CHECK, PROCESS_CHAPTER (repeated), FINALIZE, DONE: the chapters are
\* selected before the resume check, which is reached only with a non-empty
\* selection, and a run that fails at the selection leaves the run directory
\* as it found it.
C27_SelectionBeforeResumeCheck ==
    [][/\ Phase(pc) = 2 => run.chapters = SelectedChapters(args) /\ run.chapters # <<>>
       /\ invocations' = invocations /\ Phase(pc') # 0
              => Phase(pc) \notin {0, 1} /\ Phase(pc) <= Phase(pc')
       /\ invocations' # invocations
              => /\ Phase(pc') = IF SelectedChapters(args') = <<>> THEN 1 ELSE 2
                 /\ run'.chapters = SelectedChapters(args')
                 /\ UNCHANGED <<tmp_dir, params_file, chdir, tmp_pdf>>]_vars

C27_Witness ==
    /\ pc = "resume_check"
    /\ invocations = 2
    /\ tmp_dir
    /\ ~ResumeCompatible
    /\ run.chapters # <<>>

\* ------------------------------------------------- the image retrieval
\* dl_image and _try_download_url, src 262-337, as a machine over pk.  A URL
\* is the sequence of its pieces, a name piece, "-m" pieces and at most one
\* extension piece at the end, so that two URLs are the same string exactly
\* when they are the same sequence.
max_retries == 2

retry_delay == 500

extensions_to_try == <<".webp", ".png", ".jpg", ".jpeg", ".avif">>

Extensions == {extensions_to_try[k] : k \in DOMAIN extensions_to_try} \cup {".gif"}

\* The URLs an image is served under: with an extension of the alternate
\* set, with another one, with none, and with a base name that ends in "-m".
ImageUrls ==
    {base \o ext : base \in {<<"a">>, <<"a", "-m">>},
                   ext \in {<<>>} \cup {<<e>> : e \in Extensions}}

\* os.path.splitext(url): the base and the extension.
splitext(url) ==
    IF Len(url) > 1 /\ url[Len(url)] \in Extensions
    THEN [base_url |-> SubSeq(url, 1, Len(url) - 1), original_ext |-> <<url[Len(url)]>>]
    ELSE [base_url |-> url, original_ext |-> <<>>]

WithExtensions(base) ==
    [k \in DOMAIN extensions_to_try |-> base \o <<extensions_to_try[k]>>]

urls_to_try(url) ==
    LET base_url == splitext(url).base_url
        original_ext == splitext(url).original_ext
        modified_base_url == base_url \o <<"-m">>
    IN <<url>> \o WithExtensions(base_url)
           \o <<modified_base_url \o original_ext>>
           \o WithExtensions(modified_base_url)

\* A removal of duplicates that keeps the last occurrence.
RECURSIVE fromkeys_KeepLast(_)
fromkeys_KeepLast(urls) ==
    IF urls = <<>> THEN <<>>
    ELSE IF \E k \in 2..Len(urls) : urls[k] = Head(urls)
    THEN fromkeys_KeepLast(Tail(urls))
    ELSE <<Head(urls)>> \o fromkeys_KeepLast(Tail(urls))

\* list(dict.fromkeys(urls)): the first occurrence of every URL, in order.
fromkeys(urls) ==
    LET first == {k \in DOMAIN urls : \A j \in 1..(k - 1) : urls[j] # urls[k]}
        nth(n) == CHOOSE k \in first : Cardinality({j \in first : j < k}) = n - 1
    IN [n \in 1..Cardinality(first) |-> urls[nth(n)]]

unique_urls_to_try(url) == fromkeys(urls_to_try(url))

\* The outcomes of one scraper.get with the streaming of its body: the file
\* is written, the request fails before the file is opened, or the stream
\* breaks after the file was opened.
GetOutcomes == {"ok", "failed", "broken"}

\* One attempt more than max_retries.
LastAttempt_OneMore(attempt) == attempt >= max_retries

\* The last turn of 'for attempt in range(max_retries)'.
LastAttempt(attempt) == attempt >= max_retries - 1

DlStart(url) ==
    [url |-> url, urls |-> <<>>, v |-> 0, attempt |-> 0, log |-> <<>>,
     file |-> "absent", result |-> NoArg, pc |-> "build"]

DlInit ==
    /\ pc = "idle"
    /\ args = BaseArgs
    /\ catalog = [c \in AllChapters |-> "normal"]
    /\ EmptyDisk
    /\ run = InitRun
    /\ encoder = <<>>
    /\ chapter_files = <<>>
    /\ invocations = 0
    /\ \E url \in ImageUrls : pk = DlStart(url)

\* src 290-309: the list of URLs to try.
DlBuild ==
    /\ pk.pc = "build"
    /\ pk' = [pk EXCEPT !.urls = unique_urls_to_try(pk.url), !.v = 1,
                        !.pc = "get"]
    /\ UNCHANGED mainVars

\* One turn of the loop of _try_download_url up to the sleep: the request
\* succeeds and dl_image returns the path, or it fails, and after the last
\* attempt dl_image goes on to the next URL or returns None.
DlGet ==
    /\ pk.pc = "get"
    /\ \E outcome \in GetOutcomes :
           LET logged == Append(pk.log, [url |-> pk.urls[pk.v],
                                         ok |-> outcome = "ok", slept |-> 0])
               file == CASE outcome = "ok" -> "whole"
                         [] outcome = "broken" -> "partial"
                         [] OTHER -> pk.file
           IN pk' =
                  IF outcome = "ok"
                  THEN [pk EXCEPT !.log = logged, !.file = file,
                                  !.result = Some("pth"), !.pc = "returned"]
                  ELSE IF ~LastAttempt(pk.attempt)
                  THEN [pk EXCEPT !.log = logged, !.file = file, !.pc = "sleep"]
                  ELSE IF pk.v < Len(pk.urls)
                  THEN [pk EXCEPT !.log = logged, !.file = file,
                                  !.v = @ + 1, !.attempt = 0]
                  ELSE [pk EXCEPT !.log = logged, !.file = file,
                                  !.pc = "returned"]
    /\ UNCHANGED mainVars

\* time.sleep(retry_delay) before the next attempt at the same URL.
DlSleep ==
    /\ pk.pc = "sleep"
    /\ pk' = [pk EXCEPT !.log[Len(pk.log)].slept = retry_delay,
                        !.attempt = @ + 1, !.pc = "get"]
    /\ UNCHANGED mainVars

DlNext == DlBuild \/ DlGet \/ DlSleep

SpecDl == DlInit /\ [][DlNext]_vars

\* Every request ends, by its answer or by its timeout of 30 seconds, and
\* every sleep ends: a step that is possible is taken.
SpecDlFair == SpecDl /\ WF_vars(DlNext)

\* The candidates as the claim lists them: the original URL, the base name
\* with each alternate extension, the "-m" base name with the original
\* extension, the "-m" base name with each alternate extension.
Candidates ==
    LET base == splitext(pk.url).base_url
        ext == splitext(pk.url).original_ext
        alternates == <<".webp", ".png", ".jpg", ".jpeg", ".avif">>
    IN <<pk.url, base \o <<alternates[1]>>, base \o <<alternates[2]>>,
         base \o <<alternates[3]>>, base \o <<alternates[4]>>,
         base \o <<alternates[5]>>,
         base \o <<"-m">> \o ext,
         base \o <<"-m", alternates[1]>>, base \o <<"-m", alternates[2]>>,
         base \o <<"-m", alternates[3]>>, base \o <<"-m", alternates[4]>>,
         base \o <<"-m", alternates[5]>>>>

FirstAt(seq, x) == CHOOSE k \in DOMAIN seq : seq[k] = x /\ \A j \in 1..(k - 1) : seq[j] # x

\* C29: the list of URLs built for an image holds the candidates in their
\* order, each once, at the place of its first occurrence: no URL is tried
\* twice and the original URL is tried first.
C29_VariantList ==
    pk.pc # "build"
        => /\ pk.urls[1] = pk.url
           /\ \A i, j \in DOMAIN pk.urls : i # j => pk.urls[i] # pk.urls[j]
           /\ {pk.urls[k] : k \in DOMAIN pk.urls}
                  = {Candidates[k] : k \in DOMAIN Candidates}
           /\ \A i, j \in DOMAIN pk.urls :
                  i < j => FirstAt(Candidates, pk.urls[i]) < FirstAt(Candidates, pk.urls[j])
           /\ \A i, j, k \in DOMAIN pk.log :
                  i < j /\ j < k /\ pk.log[i].url = pk.log[k].url
                      => pk.log[j].url = pk.log[i].url
           /\ pk.log # <<>> => pk.log[1].url = pk.url

\* The URL has an alternate extension, so that the list has two duplicates,
\* and the retrieval has gone through the whole list.
C29_Witness ==
    /\ pk.pc = "returned"
    /\ pk.result = NoArg
    /\ pk.url = <<"a", "-m", ".png">>
    /\ Len(pk.urls) = 10
    /\ Len(pk.log) = 20

AttemptsAt(url) == {i \in DOMAIN pk.log : pk.log[i].url = url}

RetrievalInOrder ==
    /\ \A i \in DOMAIN pk.log : \E k \in DOMAIN pk.urls : pk.urls[k] = pk.log[i].url
    /\ \A i, j \in DOMAIN pk.log :
           i < j => FirstAt(pk.urls, pk.log[i].url) <= FirstAt(pk.urls, pk.log[j].url)
    /\ \A k \in DOMAIN pk.urls :
           /\ Cardinality(AttemptsAt(pk.urls[k])) <= max_retries
           /\ AttemptsAt(pk.urls[k]) # {} /\ k > 1
                  => /\ Cardinality(AttemptsAt(pk.urls[k - 1])) = max_retries
                     /\ \A i \in AttemptsAt(pk.urls[k - 1]) : ~pk.log[i].ok
    /\ \A i \in DOMAIN pk.log :
           /\ i < Len(pk.log)
                  => pk.log[i].slept = IF pk.log[i + 1].url = pk.log[i].url
                                       THEN retry_delay ELSE 0
           /\ pk.log[i].ok
                  => /\ i = Len(pk.log)
                     /\ pk.log[i].slept = 0
                     /\ pk.pc = "returned"
                     /\ pk.result # NoArg
                     /\ pk.file = "whole"
    /\ pk.pc = "returned" /\ pk.result = NoArg
           => \A k \in DOMAIN pk.urls :
                  /\ Cardinality(AttemptsAt(pk.urls[k])) = max_retries
                  /\ \A i \in AttemptsAt(pk.urls[k]) :
                         ~pk.log[i].ok /\ (i = Len(pk.log) => pk.log[i].slept = 0)
    /\ pk.pc = "returned" /\ pk.result # NoArg => pk.log[Len(pk.log)].ok

\* C28: the retrieval of an image ends; the URLs are tried in list order,
\* each at most max_retries times with retry_delay between two attempts at
\* it, the first success ends the retrieval and no further URL is tried,
\* and the image is unavailable only after every URL of the list has failed
\* max_retries times.
C28_RetrievalTerminates == []RetrievalInOrder /\ <>(pk.pc = "returned")

C28_Witness ==
    /\ pk.pc = "returned"
    /\ pk.result # NoArg
    /\ Len(pk.log) = 4
    /\ pk.log[1].slept = retry_delay
    /\ pk.log[2].slept = 0
    /\ pk.log[3].slept = retry_delay
    /\ pk.log[3].url = pk.urls[2]
    /\ pk.file = "whole"

\* ------------------------------------------------- one run over a catalog
\* main() from the chapter selection to the cleanup, started once on an
\* empty disk, over catalogs with chapters whose images are in part or all
\* unavailable or undecodable.
FetchKinds == ChapterKinds \cup {"partial", "lost", "spoilt"}

FetchCatalogs == [AllChapters -> FetchKinds]

FetchArgs ==
    {[BaseArgs EXCEPT !.format = f, !.split = x, !.no_cleanup = TRUE] :
        f \in Formats, x \in {NoArg, SplitCh(1)}}
        \cup {[BaseArgs EXCEPT !.aspect_ratio = Some(EmptySpec), !.no_cleanup = n] :
                 n \in BOOLEAN}

FetchInit ==
    /\ pk = IdlePack
    /\ args \in FetchArgs
    /\ pc = StartPc(args)
    /\ run = Started(args)
    /\ catalog \in FetchCatalogs
    /\ EmptyDisk
    /\ encoder = <<>>
    /\ chapter_files = <<>>
    /\ invocations = 1

FetchNext ==
    \/ ResumeCheck
    \/ ParamsOpen
    \/ ParamsDump
    \/ LoopNext
    \/ CheckChapter
    \/ CleanChapter
    \/ DownloadImage
    \/ DownloadDone
    \/ ProcessHangs
    \/ ProcessImages
    \/ SavePage
    \/ SaveDone
    \/ MarkComplete
    \/ EmitChapter
    \/ OfferChapter
    \/ FinalFlush
    \/ Cleanup

SpecFetch == FetchInit /\ [][FetchNext]_vars

\* The images of a chapter that are available among its first n, in the
\* order in which the source lists them.
Available(kind, n) ==
    LET at == SelectSeq([k \in 1..n |-> k], LAMBDA k : k \in Retrievable(kind))
    IN [j \in DOMAIN at |-> ImagesOfKind(kind)[at[j]]]

\* A chapter that ends with zero pages: no image is retrieved, or none of
\* the retrieved ones can be decoded.
ZeroPages(c) ==
    LET got == Available(catalog[c], Len(ImagesOfKind(catalog[c])))
    IN \A k \in DOMAIN got : got[k] = Corrupt

InSomePart(c) ==
    \/ \E k \in DOMAIN run.book.chapters : run.book.chapters[k] = c
    \/ \E p \in DOMAIN encoder :
           \E k \in DOMAIN encoder[p].chapters : encoder[p].chapters[k] = c

\* C30: an unavailable image is dropped and the remaining images of the
\* chapter reach the packer in their original relative order; a chapter that
\* ends with zero pages gets no completion marker and is not offered to the
\* accumulator, and the run goes on with the next chapter.
C30_UnavailableImagesDropped ==
    /\ pc = "download"
           => run.downloaded_images = Available(catalog[ch], run.i)
    /\ pc \in {"process", "save", "mark"}
           => /\ run.downloaded_images = Available(catalog[ch], Len(imgs))
              /\ run.downloaded_images # <<>>
    /\ \A c \in AllChapters :
           ZeroPages(c)
               => /\ ~chdir[c].marker
                  /\ ~InSomePart(c)
                  /\ \A k \in DOMAIN chapter_files : chapter_files[k].ch # c
                  /\ pc = "offer" => ch # c
    /\ pc = "final"
           => /\ run.ci = Len(run.chapters)
              /\ \A c \in AllChapters :
                     /\ chdir[c].marker <=> ~ZeroPages(c)
                     /\ args.format # "none" => (InSomePart(c) <=> ~ZeroPages(c))

\* A chapter with an unavailable image is in the book after a chapter that
\* ended with zero pages.
C30_Witness ==
    /\ pc = "final"
    /\ catalog[1] = "spoilt"
    /\ catalog[2] = "partial"
    /\ run.book.chapters = <<2>>
    /\ Len(chdir[2].processed) > 0
    /\ ~chdir[1].marker

\* ------------------------------------------------- --restore-parameters
\* Two invocations on one run directory: a first run, which may be killed,
\* and a second one, with or without --restore-parameters (src 1155-1191).
RestoreFirstArgs ==
    {[BaseArgs EXCEPT !.format = f, !.aspect_ratio = r, !.no_cleanup = TRUE] :
        f \in Formats, r \in {NoArg, Some(Ratio(1, 750))}}
        \cup {BaseArgs}

RestoreSecondArgs ==
    {[BaseArgs EXCEPT !.format = f, !.aspect_ratio = NoArg, !.quality = q,
                      !.no_cleanup = TRUE, !.restore_parameters = r] :
        f \in Formats, q \in {85, 90}, r \in BOOLEAN}

\* A restoration that leaves the aspect ratio to the new format's default.
restored_args_FormatDefault(a, restored_params) ==
    [a EXCEPT !.width = Some(restored_params.width),
              !.aspect_ratio = NoArg,
              !.quality = restored_params.quality,
              !.scaling = restored_params.scaling,
              !.chapters = restored_params.chapters,
              !.group = restored_params.group,
              !.mix_by_upvote = restored_params.mix_by_upvote,
              !.no_partials = restored_params.no_partials]

\* setattr(args, key, value) for every key of the file; the format and the
\* layout stay those of the command line.
restored_args(a, restored_params) ==
    [a EXCEPT !.width = Some(restored_params.width),
              !.aspect_ratio = restored_params.aspect_ratio,
              !.quality = restored_params.quality,
              !.scaling = restored_params.scaling,
              !.chapters = restored_params.chapters,
              !.group = restored_params.group,
              !.mix_by_upvote = restored_params.mix_by_upvote,
              !.no_partials = restored_params.no_partials]

\* Where main() starts: at the restoration when it is asked for.
EntryPc(a) == IF a.restore_parameters THEN "restore" ELSE StartPc(a)

RestoreInit ==
    /\ pk = IdlePack
    /\ args \in RestoreFirstArgs
    /\ pc = EntryPc(args)
    /\ run = Started(args)
    /\ catalog = [c \in AllChapters |-> "normal"]
    /\ EmptyDisk
    /\ encoder = <<>>
    /\ chapter_files = <<>>
    /\ invocations = 1

\* A restoration that goes on with the command line when the file does
\* not parse.
RestoreOutcome_StartsFresh(a, dir, file) ==
    IF ~dir \/ file = NoFile
    THEN [pc |-> "aborted", args |-> a]
    ELSE IF JSONDecodeError(file[1])
    THEN [pc |-> StartPc(a), args |-> a]
    ELSE LET restored == restored_args(a, json_load(file[1]))
         IN [pc |-> StartPc(restored), args |-> restored]

\* if args.restore_parameters: the file is missing or does not parse and
\* the run ends with sys.exit, or the settings are taken from it.
RestoreOutcome(a, dir, file) ==
    IF ~dir \/ file = NoFile \/ JSONDecodeError(file[1])
    THEN [pc |-> "aborted", args |-> a]
    ELSE LET restored == restored_args(a, json_load(file[1]))
         IN [pc |-> StartPc(restored), args |-> restored]

RestoreParameters ==
    /\ pc = "restore"
    /\ LET o == RestoreOutcome(args, tmp_dir, params_file)
       IN /\ args' = o.args
          /\ pc' = o.pc
          /\ run' = IF o.pc = "aborted" THEN run ELSE Started(o.args)
    /\ UNCHANGED <<pk, invocations, catalog, tmp_dir, params_file, chdir, tmp_pdf,
                   encoder, chapter_files>>

\* The second invocation, on the disk the first one left.
RestoreRestart ==
    /\ pc \in Ended
    /\ invocations < MaxRuns
    /\ invocations' = invocations + 1
    /\ \E a \in RestoreSecondArgs :
           /\ args' = a
           /\ pc' = EntryPc(a)
           /\ run' = Started(a)
    /\ encoder' = <<>>
    /\ chapter_files' = <<>>
    /\ UNCHANGED <<pk, catalog, tmp_dir, params_file, chdir, tmp_pdf>>

RestoreNext ==
    \/ RestoreParameters
    \/ ResumeCheck
    \/ ParamsOpen
    \/ ParamsDump
    \/ LoopNext
    \/ CheckChapter
    \/ CleanChapter
    \/ DownloadImage
    \/ DownloadDone
    \/ ProcessImages
    \/ SavePage
    \/ SaveDone
    \/ MarkComplete
    \/ EmitChapter
    \/ OfferChapter
    \/ FinalFlush
    \/ Cleanup
    \/ Kill
    \/ RestoreRestart

SpecRestore == RestoreInit /\ [][RestoreNext]_vars

Unparseable == tmp_dir /\ params_file # NoFile /\ JSONDecodeError(params_file[1])

\* C31 as stated: a run that finds a persisted fingerprint it cannot parse
\* aborts, and leaves the disk as it is.
C31_UnreadableFingerprintFatal ==
    [][Unparseable /\ pc \in {"restore", "resume_check"} /\ pc' # "killed"
           => pc' = "aborted" /\ UNCHANGED <<tmp_dir, params_file, chdir, tmp_pdf>>]_vars

\* C31: with --restore-parameters a fingerprint that cannot be parsed ends
\* the run before any chapter is processed and with the disk untouched;
\* without it the resume check removes the run directory and the run starts
\* afresh.
C31_UnreadableFatalOnRestore ==
    [][/\ Unparseable /\ pc = "restore"
           => /\ pc' = "aborted"
              /\ run'.ci = 0
              /\ encoder' = <<>>
              /\ UNCHANGED <<tmp_dir, params_file, chdir, tmp_pdf>>
       /\ Unparseable /\ pc = "resume_check" /\ pc' # "killed"
           => /\ pc' = "params_open"
              /\ ~run'.resume_mode
              /\ ~tmp_dir'
              /\ params_file' = NoFile
       /\ pc = "aborted" => invocations' = invocations + 1]_vars

C31_Witness ==
    /\ pc = "aborted"
    /\ invocations = 2
    /\ args.restore_parameters
    /\ Unparseable

\* C33: after a restoration the settings are those of the run directory
\* with the format of the command line, and for every stored and every new
\* format the resume check finds the fingerprints equal, so that the run
\* resumes and the run directory is not wiped.
C33_RestoreThenResume ==
    args.restore_parameters /\ pc = "resume_check"
        => /\ args.format \in Formats
           /\ ResumeCompatible

\* ------------------------------------------------- a request that fails
\* Runs in which make_request may end the program with sys.exit when the
\* image list of a chapter is asked for (src 57-63, 228-232, 1451), each
\* followed by further runs on the disk it left.
AbortArgs ==
    {[BaseArgs EXCEPT !.format = f, !.split = x, !.keep_chapters = k] :
        f \in {"pdf", "cbz"}, x \in {NoArg, SplitCh(1)}, k \in BOOLEAN}
        \cup {[BaseArgs EXCEPT !.quality = 90]}

\* A failure that takes the run directory's chapters with it.
RequestFailed_Cleans(dirs, c) == [x \in AllChapters |-> AbsentDir]

\* The chapter directories when get_images ends the program: the directory
\* of the chapter about to be downloaded was removed just before.
RequestFailed(dirs, c) ==
    [dirs EXCEPT ![c] = IF @.exists THEN rm_tree(@) ELSE @]

AbortInit ==
    /\ pk = IdlePack
    /\ args \in AbortArgs
    /\ pc = StartPc(args)
    /\ run = Started(args)
    /\ catalog = [c \in AllChapters |-> "normal"]
    /\ EmptyDisk
    /\ encoder = <<>>
    /\ chapter_files = <<>>
    /\ invocations = 1

\* imgs = get_images(...): the request fails and make_request calls
\* sys.exit.
ImageListFails ==
    /\ pc = "clean"
    /\ chdir' = RequestFailed(chdir, ch)
    /\ pc' = "aborted"
    /\ UNCHANGED <<pk, invocations, args, catalog, tmp_dir, params_file, tmp_pdf, run,
                   encoder, chapter_files>>

AbortRestart ==
    /\ pc \in Ended
    /\ invocations < MaxRuns
    /\ invocations' = invocations + 1
    /\ \E a \in AbortArgs :
           /\ args' = a
           /\ pc' = StartPc(a)
           /\ run' = Started(a)
    /\ encoder' = <<>>
    /\ chapter_files' = <<>>
    /\ UNCHANGED <<pk, catalog, tmp_dir, params_file, chdir, tmp_pdf>>

AbortNext ==
    \/ ResumeCheck
    \/ ParamsOpen
    \/ ParamsDump
    \/ LoopNext
    \/ CheckChapter
    \/ CleanChapter
    \/ ImageListFails
    \/ DownloadImage
    \/ DownloadDone
    \/ ProcessImages
    \/ SavePage
    \/ SaveDone
    \/ MarkComplete
    \/ EmitChapter
    \/ OfferChapter
    \/ FinalFlush
    \/ Cleanup
    \/ AbortRestart

SpecAbort == AbortInit /\ [][AbortNext]_vars

\* C32: a step that aborts the run leaves the finalized parts, the
\* per-chapter files, the persisted fingerprint and every completed
\* chapter's marker and pages as they are, and the next run with the same
\* parameters resumes: its resume check keeps the run directory and its
\* skip check reuses the completed chapters.
C32_AbortKeepsEverything ==
    [][/\ pc # "aborted" /\ pc' = "aborted"
           => /\ tmp_dir' /\ params_file' = params_file /\ tmp_pdf' = tmp_pdf
              /\ encoder' = encoder /\ chapter_files' = chapter_files
              /\ \A c \in AllChapters : chdir[c].marker => chdir'[c] = chdir[c]
              /\ params_file' = <<json_dump(get_processing_params(args))>>
       /\ pc = "aborted" /\ invocations' = invocations + 1
             /\ get_processing_params(args') = get_processing_params(args)
           => /\ pc' = "resume_check"
              /\ ResumeCompatible'
              /\ UNCHANGED <<tmp_dir, params_file, chdir, tmp_pdf>>
       /\ pc = "resume_check" /\ ResumeCompatible
           => run'.resume_mode /\ UNCHANGED <<tmp_dir, params_file, chdir, tmp_pdf>>
       /\ pc = "check" /\ run.resume_mode /\ chdir[ch].marker
           => /\ pc' = "emit"
              /\ ~run'.process_this_chapter
              /\ run'.chapter_content # <<>>
              /\ chdir' = chdir]_vars

\* The second run has skipped chapter 1, which the first run completed
\* before the request for the images of chapter 2 failed.
C32_Witness ==
    /\ invocations = 2
    /\ pc = "emit"
    /\ run.resume_mode
    /\ ~run.process_this_chapter
    /\ ch = 1
    /\ chdir[1].marker
    /\ ~chdir[2].exists

RunDirDeleted == tmp_dir /\ ~tmp_dir'

FinalFlushed ==
    FinalBuild(args, run.book) # <<>>
        => encoder # <<>> /\ encoder[Len(encoder)] = FinalBuild(args, run.book)[1]

\* C34 as stated: the run directory is deleted only at the end of the run,
\* after the final flush, and only when cleanup is not disabled.
C34_DeletedOnlyInFinalize ==
    [][RunDirDeleted => pc = "cleanup" /\ ~args.no_cleanup /\ FinalFlushed]_vars

\* C34: a run deletes its run directory only in the resume check, when the
\* directory is stale, and at the end, after the final flush and with
\* cleanup enabled; with cleanup disabled the fingerprint, the markers and
\* the cached pages are all there after the end.
C34_DeletedInFinalizeOrStale ==
    /\ [][/\ RunDirDeleted
              => \/ pc = "cleanup" /\ ~args.no_cleanup /\ FinalFlushed
                 \/ pc = "resume_check" /\ ~ResumeCompatible
          /\ pc = "cleanup" /\ args.no_cleanup
              => UNCHANGED <<tmp_dir, params_file, chdir, tmp_pdf>>
          /\ pc = "cleanup" /\ ~args.no_cleanup => pc' = "killed" \/ ~tmp_dir']_vars
    /\ [](pc = "done" /\ args.no_cleanup
              => /\ tmp_dir
                 /\ params_file = <<json_dump(get_processing_params(args))>>
                 /\ \A k \in DOMAIN run.chapters :
                        /\ chdir[run.chapters[k]].marker
                        /\ chdir[run.chapters[k]].processed # <<>>)

\* A run with cleanup disabled has ended on a directory that its resume
\* check had removed and made anew.
C34_Witness ==
    /\ pc = "done"
    /\ invocations = 2
    /\ args.no_cleanup
    /\ args.quality = 90
    /\ ~args.restore_parameters
    /\ ~run.resume_mode
    /\ tmp_dir

\* ------------------------------------------- cached pages and releases
\* The catalog of a comic as the site serves it: one list of releases per
\* language (get_chapters asks for ?lang=<lang>), every chapter number in
\* two releases, of which the top-voted one is the site's state and may
\* have changed between two runs.
Languages == {"en", "fr"}

Releases == {"a", "b"}

ReleaseLabel(c) == IF c = 1 THEN "1" ELSE "2"

\* One entry of the chapter list: release "a" is by group A, release "b"
\* names no group; hid is the release id.
Release(lang, c, r, top) ==
    [chap |-> Some(ReleaseLabel(c)), hid |-> <<lang, c, r>>,
     up_count |-> IF r = top THEN Some(1) ELSE NoArg,
     md_chapters_groups |-> IF r = "a" THEN <<Some("A")>> ELSE <<>>,
     group_name |-> NoArg]

\* get_chapters(hid, scraper, lang): the chapters of that language.
get_chapters(lang, top) ==
    <<Release(lang, 1, "a", top), Release(lang, 1, "b", top),
      Release(lang, 2, "a", top), Release(lang, 2, "b", top)>>

\* get_images(ch["hid"], scraper): the images of that release, here one
\* image named by the release.
get_images(chid) == <<chid>>

ReuseArgs ==
    {[BaseArgs EXCEPT !.language = l, !.group = g, !.no_cleanup = TRUE] :
        l \in Languages, g \in {<<>>, <<"A">>}}

ReuseStart(top) ==
    [top |-> top, pool |-> <<>>, chapters |-> <<>>, ci |-> 0, book |-> <<>>]

ReuseInit ==
    /\ pc = "get_chapters"
    /\ args \in ReuseArgs
    /\ catalog = [c \in AllChapters |-> "normal"]
    /\ EmptyDisk
    /\ run = InitRun
    /\ encoder = <<>>
    /\ chapter_files = <<>>
    /\ invocations = 1
    /\ \E top \in Releases : pk = ReuseStart(top)

\* pool = get_chapters(hid, scraper, args.language) and the selection.
GetChapters ==
    /\ pc = "get_chapters"
    /\ LET pool == get_chapters(args.language, pk.top)
       IN pk' = [pk EXCEPT !.pool = pool,
                           !.chapters = FilteredChapters(args, pool)]
    /\ pc' = "resume_check"
    /\ UNCHANGED <<invocations, args, catalog, tmp_dir, params_file, chdir,
                   tmp_pdf, run, encoder, chapter_files>>

\* The chapter directory ch_<n> of a release: named by its label alone.
ChapterDir(release) == Float(release.chap[1]) \div 10

\* The skip check: the cached pages of ch_<n> that a resumed run takes in
\* place of a download, none when the chapter is processed.
CachedPages(release, resume_mode, dirs) ==
    IF resume_mode /\ dirs[ChapterDir(release)].marker
    THEN dirs[ChapterDir(release)].processed
    ELSE <<>>

\* One pass of the chapter loop: the chapter is skipped and its cached
\* pages are reused, or its images are fetched by release id, saved and
\* marked complete.
ReuseChapter ==
    /\ pc = "loop"
    /\ pk.ci < Len(pk.chapters)
    /\ LET release == pk.pool[pk.chapters[pk.ci + 1]]
           n == ChapterDir(release)
           cached == CachedPages(release, run.resume_mode, chdir)
           saved == PageFiles(n, get_images(release.hid))
       IN IF cached # <<>>
          THEN /\ pk' = [pk EXCEPT !.ci = @ + 1,
                            !.book = Append(@, [release |-> release,
                                                reused |-> TRUE,
                                                pages |-> cached])]
               /\ UNCHANGED chdir
          ELSE /\ pk' = [pk EXCEPT !.ci = @ + 1,
                            !.book = Append(@, [release |-> release,
                                                reused |-> FALSE,
                                                pages |-> saved])]
               /\ chdir' = [chdir EXCEPT ![n] = [exists |-> TRUE,
                                                 processed |-> saved,
                                                 marker |-> TRUE]]
    /\ UNCHANGED <<pc, invocations, args, catalog, tmp_dir, params_file,
                   tmp_pdf, run, encoder, chapter_files>>

\* The end of the loop; --no-cleanup keeps the run directory.
ReuseDone ==
    /\ pc = "loop"
    /\ pk.ci = Len(pk.chapters)
    /\ pc' = "done"
    /\ UNCHANGED <<pk, invocations, args, catalog, tmp_dir, params_file, chdir,
                   tmp_pdf, run, encoder, chapter_files>>

\* The program is started again on the directory the last run left, with
\* any arguments and with the site's votes as they are by then.
ReuseRestart ==
    /\ pc = "done"
    /\ invocations < MaxRuns
    /\ invocations' = invocations + 1
    /\ args' \in ReuseArgs
    /\ \E top \in Releases : pk' = ReuseStart(top)
    /\ pc' = "get_chapters"
    /\ run' = InitRun
    /\ UNCHANGED <<catalog, tmp_dir, params_file, chdir, tmp_pdf, encoder,
                   chapter_files>>

ReuseNext ==
    \/ GetChapters
    \/ ResumeCheck
    \/ ParamsOpen
    \/ ParamsDump
    \/ ReuseChapter
    \/ ReuseDone
    \/ ReuseRestart

SpecReuse == ReuseInit /\ [][ReuseNext]_vars

\* C35: whenever a resumed run skips a chapter and reuses its cached
\* pages, those pages were produced from the release (release id, and with
\* it the catalog language) that the current run selects for that chapter
\* number.
C35_ReusedPagesOfSelectedRelease ==
    \A k \in DOMAIN pk.book :
        pk.book[k].reused =>
            /\ pk.book[k].pages
                   = PageFiles(ChapterDir(pk.book[k].release),
                               get_images(pk.book[k].release.hid))
            /\ \A i \in DOMAIN pk.book[k].pages :
                   pk.book[k].pages[i].img[1] = args.language

\* C36: with --keep-chapters, the individual file written for chapter n is
\* built from exactly chapter n's pages, in every run including a resumed
\* run in which chapter n was skipped: never from the pages of a chapter
\* processed before it, and never from an undefined page list.
C36_ChapterFileOfOwnPages ==
    /\ \A k \in DOMAIN chapter_files :
           /\ chapter_files[k].pages # <<>>
           /\ \A i \in DOMAIN chapter_files[k].pages :
                  chapter_files[k].pages[i].ch = chapter_files[k].ch
    /\ ~(pc = "aborted" /\ args.keep_chapters /\ ~run.final_page_paths.bound)

\* The pages chapter c contributes to a part, and the pages the chapters
\* before the k-th chapter of a part contribute together.
PagesOf(c) == Len(ChapterOutput(args, c, pk.sizes[c]))

RECURSIVE PagesBefore(_, _)
PagesBefore(chapters, k) ==
    IF k <= 1 THEN 0
    ELSE PagesBefore(chapters, k - 1) + PagesOf(chapters[k - 1])

\* C37: for epub, in every state of the accumulation loop the markers of
\* the current part list its chapters in order, each marker's page index
\* is the number of pages the chapters before it contributed to the part,
\* the first marker (also after a flush) has page index 0, and every page
\* index is smaller than the part's page count.
C37_MarkersIndexChapters ==
    args.format = "epub" =>
        /\ Len(pk.epub_markers) = Len(run.book.chapters)
        /\ \A k \in DOMAIN pk.epub_markers :
               /\ pk.epub_markers[k].ch = run.book.chapters[k]
               /\ k > 1 => pk.epub_markers[k - 1].ch < pk.epub_markers[k].ch
               /\ pk.epub_markers[k].page_index
                      = PagesBefore(run.book.chapters, k)
               /\ pk.epub_markers[k].page_index < Len(run.book.content)
        /\ pk.epub_markers # <<>> => pk.epub_markers[1].page_index = 0

\* After a flush, the epub part being accumulated holds a chapter of two
\* pages and the chapter after it, whose marker has page index 2.
C37_Witness ==
    /\ args.format = "epub"
    /\ encoder # <<>>
    /\ Len(pk.epub_markers) = 2
    /\ pk.epub_markers[2].page_index = 2
    /\ Len(run.book.content) > 2

\* The height of the first k pages together.
HeightUpTo(pages, k) == SumHeights(SubSeq(pages, 1, k))

\* The input page with which output page k of a recombination begins.
FirstIn(scaled_images, strips, k) ==
    CHOOSE j \in DOMAIN scaled_images :
        HeightUpTo(scaled_images, j - 1) = HeightUpTo(strips, k - 1)

\* C38: the recombination over scaled pages never cuts or reorders a page:
\* its output pages are consecutive whole input pages in input order, the
\* output heights add up to the input heights, no output page is taller
\* than the recombine height when no input page is, and the height of an
\* output page plus the height of the first input page of the next output
\* page exceeds the recombine height.
C38_RecombineKeepsWholePages ==
    (RescaleDone /\ pk.recombined) =>
        /\ Concat(pk.images_to_save) = Concat(pk.scaled_images_in_mem)
        /\ \A k \in DOMAIN pk.images_to_save :
               \E j \in DOMAIN pk.scaled_images_in_mem :
                   HeightUpTo(pk.scaled_images_in_mem, j)
                       = HeightUpTo(pk.images_to_save, k)
        /\ SumHeights(pk.images_to_save) = SumHeights(pk.scaled_images_in_mem)
        /\ (\A j \in DOMAIN pk.scaled_images_in_mem :
                Height(pk.scaled_images_in_mem[j]) <= TargetHeight(args))
               => \A k \in DOMAIN pk.images_to_save :
                      Height(pk.images_to_save[k]) <= TargetHeight(args)
        /\ \A k \in AllButLast(pk.images_to_save) :
               Height(pk.images_to_save[k])
                   + Height(pk.scaled_images_in_mem[
                         FirstIn(pk.scaled_images_in_mem, pk.images_to_save,
                                 k + 1)])
                   > TargetHeight(args)

\* A recombination of three scaled pages into two: the first output page
\* stacks two of them, and the third did not fit on it.
C38_Witness ==
    /\ RescaleDone /\ pk.recombined
    /\ Len(pk.scaled_images_in_mem) = 3
    /\ Len(pk.images_to_save) = 2
    /\ pk.images_to_save[1]
           = pk.scaled_images_in_mem[1] \o pk.scaled_images_in_mem[2]
    /\ pk.images_to_save[2] = pk.scaled_images_in_mem[3]

\* The page files a chapter has when it is marked complete: every page
\* made of the images of the chapter that can be retrieved.
CompletePages(a, cat, c) ==
    PageFiles(c, ImagesToSave(a, PagesInMemory(a, ImagesOfKind(cat[c]))))

\* C39: in every on-disk state, also one left by a kill at any step or in
\* the middle of a directory removal, a chapter whose completion marker
\* exists alongside a matching fingerprint has its complete set of page
\* files, and a resumed run that skips a chapter reuses the complete set.
\* (The fingerprint is compared with that of the run that finds the state.)
C39_MarkedChapterHasAllPages ==
    /\ \A c \in AllChapters :
           (pc \in InLoop \cup {"resume_check"} /\ PersistedEqualsCurrent
                /\ chdir[c].marker) =>
               chdir[c].processed = CompletePages(args, catalog, c)
    /\ (pc = "emit" /\ ~run.process_this_chapter) =>
           chdir[ch].processed = CompletePages(args, catalog, ch)

====
